---------------------------- MODULE Spec2Model ----------------------------
(***************************************************************************)
(* A model of the resume matching core of AI-Resume-Matcher:               *)
(*   - the hybrid similarity scorer (FilesPage.calculateEnhancedSimilarity *)
(*     and the inline scorer of ChatbotPage.findSimilarResumes),           *)
(*   - the embedding client with its cache (FilesPage.generateEmbedding    *)
(*     and ChatbotPage.generateEmbedding).                                 *)
(*                                                                         *)
(* Texts are sequences of UTF-16 code units.  Numbers of the scorer are    *)
(* binary floating point numbers rounded to nearest, ties to even, as JS   *)
(* Numbers are; the significand has FloatBits bits instead of 53 and the   *)
(* exponent range is unbounded (no overflow, no subnormals).               *)
(***************************************************************************)
EXTENDS Integers, Sequences, FiniteSets, TLC

VARIABLES
    scoreArgs,   \* the four arguments of one scorer call
    scorePc,     \* "args" | "files" | "chat": which scorers have run on them
    filesScore,  \* calculateEnhancedSimilarity(e1,e2,t1,t2) and with the sides swapped
    chatScore,   \* the score ChatbotPage.findSimilarResumes gives the same pair
    cache,       \* embeddingCache.current: the Map's entries in insertion order
    calls,       \* the generateEmbedding calls in progress, one per caller
    insertLog,   \* history: the keys that entered the cache, oldest first
    rankArgs,    \* the resumes, the query and the count of one ranking call
    ranking,     \* what findSimilarResumes made of them, at FilesPage or ChatbotPage
    batch,       \* an upload or a regeneration in progress: its items and its counts
    norm,        \* a text on its way through preprocessTextForEmbedding to the request
    chat,        \* ChatbotPage: the messages shown and the rows of chat_messages
    files        \* the resumes table, the storage bucket and the uploads in flight

scoreVars == <<scoreArgs, scorePc, filesScore, chatScore>>

embedVars == <<cache, calls, insertLog>>

rankVars == <<rankArgs, ranking>>

pageVars == <<norm, chat, files>>

vars == <<scoreArgs, scorePc, filesScore, chatScore, cache, calls, insertLog,
          rankArgs, ranking, batch, norm, chat, files>>

(***************************************************************************)
(* Bounds of the model.                                                    *)
(***************************************************************************)
FloatBits == 9   \* bits of the significand (53 in a JS Number)
MaxDim == 2      \* longest embedding vector drawn as a scorer input
MaxWords == 2    \* most words in a text drawn as a scorer input
MaxResumes == 3  \* most resumes in the list a ranking call is given
MaxItems == 3    \* most files or resumes in a batch
MaxLines == 2    \* most lines in a text drawn as a normalizer input
MaxUploads == 2  \* most uploadFile calls in flight at once
MaxClock == 6    \* the chat creates no message once its clock has reached this

(***************************************************************************)
(* Binary floating point: the value of [m |-> m, e |-> e] is m * 2^e; a    *)
(* nonzero number has 2^(FloatBits-1) <= |m| < 2^FloatBits.                *)
(***************************************************************************)
RECURSIVE Pow2(_)
Pow2(k) == IF k <= 0 THEN 1 ELSE 2 * Pow2(k - 1)

RECURSIVE BitLen(_)
BitLen(n) == IF n = 0 THEN 0 ELSE 1 + BitLen(n \div 2)

Abs(i) == IF i < 0 THEN -i ELSE i

Sign(i) == IF i < 0 THEN -1 ELSE 1

FZero == [m |-> 0, e |-> 0]

\* n * 2^e (n >= 0) rounded to FloatBits bits, to nearest, ties to even.
RoundNearestEven(n, e) ==
    IF n = 0 THEN FZero
    ELSE LET k == BitLen(n) - FloatBits IN
         IF k <= 0 THEN [m |-> n * Pow2(-k), e |-> e + k]
         ELSE LET q    == n \div Pow2(k)
                  r    == n % Pow2(k)
                  half == Pow2(k - 1)
                  up   == r > half \/ (r = half /\ q % 2 = 1)
                  q2   == IF up THEN q + 1 ELSE q
              IN  IF q2 = Pow2(FloatBits)
                  THEN [m |-> Pow2(FloatBits - 1), e |-> e + k + 1]
                  ELSE [m |-> q2, e |-> e + k]

FSigned(s, x) == [m |-> s * x.m, e |-> x.e]

FromInt(i) == FSigned(Sign(i), RoundNearestEven(Abs(i), 0))

FMul(x, y) ==
    FSigned(Sign(x.m) * Sign(y.m), RoundNearestEven(Abs(x.m) * Abs(y.m), x.e + y.e))

FAdd(x, y) ==
    IF x.m = 0 THEN y
    ELSE IF y.m = 0 THEN x
    ELSE LET hi == IF x.e >= y.e THEN x ELSE y
             lo == IF x.e >= y.e THEN y ELSE x
             d  == hi.e - lo.e
         IN  IF d > FloatBits + 2 THEN hi
             ELSE LET s == hi.m * Pow2(d) + lo.m
                  IN  FSigned(Sign(s), RoundNearestEven(Abs(s), lo.e))

\* x / y for y # 0: the quotient to FloatBits + 2 bits and a sticky bit, rounded.
FDiv(x, y) ==
    IF x.m = 0 THEN FZero
    ELSE LET a == Abs(x.m) * Pow2(FloatBits + 2)
             b == Abs(y.m)
             q == a \div b
             sticky == IF a % b = 0 THEN 0 ELSE 1
         IN  FSigned(Sign(x.m) * Sign(y.m),
                     RoundNearestEven(2 * q + sticky, x.e - y.e - (FloatBits + 2) - 1))

RECURSIVE IsqrtFrom(_, _, _)
IsqrtFrom(n, r, bit) ==
    IF bit = 0 THEN r
    ELSE IF (r + bit) * (r + bit) <= n THEN IsqrtFrom(n, r + bit, bit \div 2)
         ELSE IsqrtFrom(n, r, bit \div 2)

\* floor of the square root of n
Isqrt(n) == IsqrtFrom(n, 0, Pow2((BitLen(n) + 1) \div 2))

\* Math.sqrt of x >= 0, correctly rounded
FSqrt(x) ==
    IF x.m = 0 THEN FZero
    ELSE LET k0 == FloatBits + 3
             k  == IF (x.e - k0) % 2 = 0 THEN k0 ELSE k0 + 1
             n  == x.m * Pow2(k)
             r  == Isqrt(n)
             sticky == IF r * r = n THEN 0 ELSE 1
         IN  RoundNearestEven(2 * r + sticky, ((x.e - k) \div 2) - 1)

\* x < y
FLess(x, y) ==
    IF x.m = 0 THEN y.m > 0
    ELSE IF y.m = 0 THEN x.m < 0
    ELSE IF Sign(x.m) # Sign(y.m) THEN x.m < 0
    ELSE IF x.m > 0 THEN x.e < y.e \/ (x.e = y.e /\ x.m < y.m)
    ELSE x.e > y.e \/ (x.e = y.e /\ x.m < y.m)

FLessEq(x, y) == x = y \/ FLess(x, y)

\* Math.max(x, y)
FMax(x, y) == IF FLess(x, y) THEN y ELSE x

\* the Number a decimal literal p/q denotes
FLiteral(p, q) == FDiv(FromInt(p), FromInt(q))

FOne == FromInt(1)

(***************************************************************************)
(* Strings: sequences of UTF-16 code units.                                *)
(***************************************************************************)
\* the code units /\s/ matches that occur in the model's texts
IsWhitespace(c) == c \in {9, 10, 13, 32}

\* the code units /\w/ matches: [A-Za-z0-9_]
IsWordChar(c) == (c \in 48..57) \/ (c \in 65..90) \/ (c \in 97..122) \/ c = 95

\* String.prototype.toLowerCase on the ASCII letters the model's texts hold
ToLowerCase(t) == [i \in 1..Len(t) |-> IF t[i] \in 65..90 THEN t[i] + 32 ELSE t[i]]

RECURSIVE SplitFrom(_, _, _, _)
SplitFrom(t, i, cur, inRun) ==
    IF i > Len(t) THEN <<cur>>
    ELSE IF IsWhitespace(t[i])
         THEN IF inRun THEN SplitFrom(t, i + 1, cur, TRUE)
              ELSE <<cur>> \o SplitFrom(t, i + 1, <<>>, TRUE)
         ELSE SplitFrom(t, i + 1, Append(cur, t[i]), FALSE)

\* t.split(/\s+/): leading or trailing whitespace yields an empty first or last piece
SplitWhitespace(t) == SplitFrom(t, 1, <<>>, FALSE)

\* arr.includes(k)
Includes(arr, k) == \E i \in 1..Len(arr) : arr[i] = k

\* text.toLowerCase().split(/\s+/).filter(word => word.length > 3)
Keywords(t) == SelectSeq(SplitWhitespace(ToLowerCase(t)), LAMBDA w : Len(w) > 3)

\* keywords1.filter(k => keywords2.includes(k))
KeywordIntersection(k1, k2) == SelectSeq(k1, LAMBDA k : Includes(k2, k))

Max2(a, b) == IF a >= b THEN a ELSE b

Min2(a, b) == IF a <= b THEN a ELSE b

\* the alternatives of the section regex, lower case
SectionWords ==
    { <<101, 100, 117, 99, 97, 116, 105, 111, 110>>,                \* education
      <<101, 120, 112, 101, 114, 105, 101, 110, 99, 101>>,            \* experience
      <<115, 107, 105, 108, 108, 115>>,                              \* skills
      <<112, 114, 111, 106, 101, 99, 116, 115>>,                     \* projects
      <<97, 99, 104, 105, 101, 118, 101, 109, 101, 110, 116, 115>>,   \* achievements
      <<119, 111, 114, 107>>,                                        \* work
      <<101, 109, 112, 108, 111, 121, 109, 101, 110, 116>> }          \* employment

\* \b before position i of t (i in 1..Len(t)+1)
WordBoundary(t, i) ==
    LET before == i > 1 /\ IsWordChar(t[i - 1])
        after  == i <= Len(t) /\ IsWordChar(t[i])
    IN  before # after

\* /\b(w)\b/i matches t at position i
SectionMatchAt(t, i, w) ==
    /\ i + Len(w) - 1 <= Len(t)
    /\ WordBoundary(t, i)
    /\ WordBoundary(t, i + Len(w))
    /\ ToLowerCase(SubSeq(t, i, i + Len(w) - 1)) = w

\* (text.match(/\b(education|...|employment)\b/gi) || []).length
SectionCount(t) ==
    Cardinality({i \in 1..Len(t) : \E w \in SectionWords : SectionMatchAt(t, i, w)})

(***************************************************************************)
(* The scorer of FilesPage.                                                *)
(***************************************************************************)
\* an embedding is null (or undefined), or an array of numbers
Missing == [isNull |-> TRUE, v |-> <<>>]

Vector(v) == [isNull |-> FALSE, v |-> v]

\* !embedding?.length
NoLength(e) == e.isNull \/ Len(e.v) = 0

RECURSIVE DotFrom(_, _, _, _)
DotFrom(a, b, i, sum) ==
    IF i > Len(a) THEN sum
    ELSE DotFrom(a, b, i + 1, FAdd(sum, FMul(FromInt(a[i]), FromInt(b[i]))))

\* a.reduce((sum, x, i) => sum + x * b[i], 0)
DotProduct(a, b) == DotFrom(a, b, 1, FZero)

\* Math.sqrt(a.reduce((sum, x) => sum + x * x, 0))
Magnitude(a) == FSqrt(DotProduct(a, a))

\* dotProduct / (magnitude1 * magnitude2)
CosineSim(a, b) == FDiv(DotProduct(a, b), FMul(Magnitude(a), Magnitude(b)))

\* Math.max(0, (cosineSim + 1) / 2)
NormalizedCosine(c) == FMax(FZero, FDiv(FAdd(c, FOne), FromInt(2)))

\* intersection.length / Math.max(keywords1.length, keywords2.length, 1)
KeywordScore(t1, t2) ==
    LET k1 == Keywords(t1)
        k2 == Keywords(t2)
    IN  FDiv(FromInt(Len(KeywordIntersection(k1, k2))),
             FromInt(Max2(Max2(Len(k1), Len(k2)), 1)))

\* Math.min(sections1, sections2) / Math.max(sections1, sections2, 1)
SectionScore(t1, t2) ==
    LET s1 == SectionCount(t1)
        s2 == SectionCount(t2)
    IN  FDiv(FromInt(Min2(s1, s2)), FromInt(Max2(Max2(s1, s2), 1)))

\* A score that weighs the keywords 0.7 and the cosine 0.2.
FinalScoreByKeywords(n, k, s) ==
    FAdd(FAdd(FMul(n, FLiteral(2, 10)), FMul(k, FLiteral(7, 10))),
         FMul(s, FLiteral(1, 10)))

\* (normalizedCosineSim * 0.7) + (keywordScore * 0.2) + (sectionScore * 0.1)
FinalScore(n, k, s) ==
    FAdd(FAdd(FMul(n, FLiteral(7, 10)), FMul(k, FLiteral(2, 10))),
         FMul(s, FLiteral(1, 10)))

\* a call that returned 0 before any subscore was computed
EarlyZero(why) == [score |-> FZero, early |-> why]

\* A scorer that zeroes only the cosine on degenerate embeddings and still adds the
\* keyword and section subscores.
calculateEnhancedSimilarityTextOnly(e1, e2, t1, t2) ==
    IF NoLength(e1) \/ NoLength(e2) THEN EarlyZero("missing")
    ELSE IF Len(e1.v) # Len(e2.v) \/ Magnitude(e1.v) = FZero \/ Magnitude(e2.v) = FZero
         THEN [score |-> FinalScore(FZero, KeywordScore(t1, t2), SectionScore(t1, t2)),
               early |-> "dimension"]
    ELSE LET n == NormalizedCosine(CosineSim(e1.v, e2.v))
             k == KeywordScore(t1, t2)
             s == SectionScore(t1, t2)
         IN  [score |-> FinalScore(n, k, s), early |-> "no",
              cosine |-> n, keyword |-> k, section |-> s]

\* calculateEnhancedSimilarity(embedding1, embedding2, text1, text2): the value
\* returned, and the subscores when the call got as far as computing them
calculateEnhancedSimilarity(e1, e2, t1, t2) ==
    IF NoLength(e1) \/ NoLength(e2) THEN EarlyZero("missing")
    ELSE IF Len(e1.v) # Len(e2.v) THEN EarlyZero("dimension")
    ELSE IF Magnitude(e1.v) = FZero \/ Magnitude(e2.v) = FZero THEN EarlyZero("magnitude")
    ELSE LET n == NormalizedCosine(CosineSim(e1.v, e2.v))
             k == KeywordScore(t1, t2)
             s == SectionScore(t1, t2)
         IN  [score |-> FinalScore(n, k, s), early |-> "no",
              cosine |-> n, keyword |-> k, section |-> s]

(***************************************************************************)
(* The scorer inlined in ChatbotPage.findSimilarResumes.                   *)
(***************************************************************************)
\* map returns null for the resume: .filter(Boolean) drops it from the ranking
NoScore == [dropped |-> TRUE]

\* (normalizedSimilarity * 0.7) + (keywordScore * 0.3)
ChatFinalSimilarity(n, k) == FAdd(FMul(n, FLiteral(7, 10)), FMul(k, FLiteral(3, 10)))

\* the body of resumes.map(...) for one resume, given the job's embedding and text
ChatSimilarity(jobEmbedding, embedding, jobDescription, content) ==
    IF jobEmbedding.isNull \/ embedding.isNull THEN NoScore
    ELSE IF Len(jobEmbedding.v) # Len(embedding.v) THEN NoScore
    ELSE IF Magnitude(jobEmbedding.v) = FZero \/ Magnitude(embedding.v) = FZero THEN NoScore
    ELSE [dropped |-> FALSE,
          score |-> ChatFinalSimilarity(
                        NormalizedCosine(CosineSim(jobEmbedding.v, embedding.v)),
                        KeywordScore(jobDescription, content))]

(***************************************************************************)
(* The cache key: createHash(text.substring(0, 200) + '_3072d').           *)
(* A 32-bit integer is a pair of 16-bit halves, so that no intermediate    *)
(* value leaves the range of the model checker's integers.                 *)
(***************************************************************************)
HashPrefixLength == 200

CacheLimit == 100

ExpectedDimensions == 3072

\* the dimension of the embeddings the cache held before the upgrade
FormerDimensions == 1536

\* '_3072d'
DimensionTag == <<95, 51, 48, 55, 50, 100>>

\* str.substring(0, n)
Substring0(str, n) == SubSeq(str, 1, Min2(Len(str), n))

\* hash = ((hash << 5) - hash) + char; hash = hash & hash: 31 * hash + char mod 2^32
HashStep(h, char) ==
    LET lo == h.lo * 31 + char
        hi == h.hi * 31 + (lo \div 65536)
    IN  [hi |-> hi % 65536, lo |-> lo % 65536]

RECURSIVE HashFrom(_, _, _)
HashFrom(str, i, h) ==
    IF i > Len(str) THEN h ELSE HashFrom(str, i + 1, HashStep(h, str[i]))

\* Math.abs of the 32-bit signed integer h, as an unsigned pair (at most 2^31)
AbsInt32(h) ==
    IF h.hi < 32768 THEN h
    ELSE [hi |-> (65535 - h.hi + (IF h.lo = 0 THEN 1 ELSE 0)) % 65536,
          lo |-> (65536 - h.lo) % 65536]

\* the digit d of a radix 36 numeral, as a code unit: 0-9, a-z
Digit36(d) == IF d < 10 THEN 48 + d ELSE 87 + d

RECURSIVE ToString36(_)
\* n.toString(36) of the unsigned pair n
ToString36(n) ==
    LET r1  == n.hi % 36
        mid == r1 * 65536 + n.lo
        q   == [hi |-> n.hi \div 36, lo |-> mid \div 36]
        \* the quotient's low half may exceed 16 bits: carry into the high half
        qn  == [hi |-> q.hi + (q.lo \div 65536), lo |-> q.lo % 65536]
        d   == mid % 36
    IN  IF qn.hi = 0 /\ qn.lo = 0 THEN <<Digit36(d)>>
        ELSE Append(ToString36(qn), Digit36(d))

\* createHash(str)
createHash(str) == ToString36(AbsInt32(HashFrom(str, 1, [hi |-> 0, lo |-> 0])))

\* textHash
TextHash(text) ==
    Substring0(createHash(Substring0(text, HashPrefixLength) \o DimensionTag), 20)

(***************************************************************************)
(* The cache: a Map, its entries kept in insertion order.                  *)
(***************************************************************************)
CacheKeys(c) == [i \in 1..Len(c) |-> c[i].key]

\* map.has(key)
CacheHas(c, key) == \E i \in 1..Len(c) : c[i].key = key

\* map.get(key), for a key the map has
CacheGet(c, key) == c[CHOOSE i \in 1..Len(c) : c[i].key = key].value

\* map.set(key, value): an existing key keeps its place, a new one goes last
CacheSet(c, key, value) ==
    IF CacheHas(c, key)
    THEN [i \in 1..Len(c) |-> IF c[i].key = key THEN [key |-> key, value |-> value]
                                                 ELSE c[i]]
    ELSE Append(c, [key |-> key, value |-> value])

\* A trim that deletes the newest key of a cache over its limit.
CacheTrimNewest(c) == IF Len(c) > CacheLimit THEN SubSeq(c, 1, Len(c) - 1) ELSE c

\* if (map.size > 100) map.delete(map.keys().next().value)
CacheTrim(c) == IF Len(c) > CacheLimit THEN Tail(c) ELSE c

\* A store that sets the entry and trims nothing.
CacheStoreUntrimmed(c, key, value) == CacheSet(c, key, value)

\* the cache after embedding with key and value is stored: set, then trim
CacheStore(c, key, value) == CacheTrim(CacheSet(c, key, value))

(***************************************************************************)
(* generateEmbedding of FilesPage and of ChatbotPage.                      *)
(***************************************************************************)
\* text.trim()
RECURSIVE TrimStart(_)
TrimStart(t) ==
    IF t # <<>> /\ IsWhitespace(Head(t)) THEN TrimStart(Tail(t)) ELSE t

RECURSIVE TrimEnd(_)
TrimEnd(t) ==
    IF t # <<>> /\ IsWhitespace(t[Len(t)]) THEN TrimEnd(SubSeq(t, 1, Len(t) - 1)) ELSE t

Trim(t) == TrimEnd(TrimStart(t))

\* an embedding the endpoint computed: its length, and the text it was computed for
EmbeddingOf(text, dim) == [of |-> text, dim |-> dim]

EmptyArray == [of |-> <<>>, dim |-> 0]

\* what a call returns: an array, undefined, or a value that is not an array
Pending == [kind |-> "pending", vec |-> EmptyArray]

ReturnArray(vec) == [kind |-> "array", vec |-> vec]

ReturnUndefined == [kind |-> "undefined", vec |-> EmptyArray]

ReturnNonArray == [kind |-> "nonarray", vec |-> EmptyArray]

\* the Error thrown inside the try block and caught by its catch clause
NoError == [kind |-> "none", status |-> 0]

ErrorOf(kind, status) == [kind |-> kind, status |-> status]

IdleCall ==
    [pc |-> "idle", site |-> "none", text |-> <<>>, retries |-> 0, key |-> <<>>,
     requests |-> 0, waits |-> <<>>, statuses |-> <<>>, body |-> "none",
     error |-> NoError,
     result |-> Pending, hit |-> FALSE]

\* the call returns value; error is what its catch clause caught, if anything
Finish(call, value, error) ==
    [call EXCEPT !.pc = "done", !.result = value, !.error = error]

\* The caller whose finished calls stay visible until it takes the result.  The
\* other callers run the same code and take their results at once: nothing runs
\* between a call's return and its caller's continuation.
Observed == "first"

\* call c of caller after a step of generateEmbedding
Settle(caller, call) ==
    IF call.pc = "done" /\ caller # Observed THEN IdleCall ELSE call

\* A backoff that starts at one second.
WaitTimeFromOne(retries) == Pow2(3 - retries) * 1000

\* Math.pow(2, 4 - retries) * 1000
WaitTime(retries) == Pow2(4 - retries) * 1000

\* An entry that does not look the text up in the cache.
FilesEnterUncached(call, text, retries, c) ==
    LET entered == [call EXCEPT !.site = "files", !.text = text, !.retries = retries]
    IN  IF Len(Trim(text)) = 0 THEN Finish(entered, ReturnArray(EmptyArray), NoError)
        ELSE [entered EXCEPT !.key = TextHash(text), !.pc = "fetch",
                             !.requests = call.requests + 1]

\* generateEmbedding(text, retries) of FilesPage up to its first await: the input
\* check, the cache lookup, and the request
FilesEnter(call, text, retries, c) ==
    LET entered == [call EXCEPT !.site = "files", !.text = text, !.retries = retries]
        key     == TextHash(text)
    IN  IF Len(Trim(text)) = 0 THEN Finish(entered, ReturnArray(EmptyArray), NoError)
        ELSE IF CacheHas(c, key)
             THEN Finish([entered EXCEPT !.key = key, !.hit = TRUE],
                         ReturnArray(CacheGet(c, key)), NoError)
             ELSE [entered EXCEPT !.key = key, !.pc = "fetch",
                                  !.requests = call.requests + 1]

\* what the endpoint may answer: a status and a body, or nothing: fetch rejects,
\* which the model writes as status 0
Statuses == {200, 404, 429, 500}

Bodies ==
    { "unparsable",     \* not JSON: response.json() rejects
      "null",           \* null
      "noData",         \* {}
      "emptyData",      \* {"data": []}
      "noEmbedding",    \* {"data": [{}]}
      "notArray",       \* {"data": [{"embedding": "x"}]}
      "emptyVector",    \* {"data": [{"embedding": []}]}
      "vector",         \* {"data": [{"embedding": [3072 numbers]}]}
      "shortVector" }   \* {"data": [{"embedding": [1536 numbers]}]}

Responses ==
    {[status |-> 0, body |-> "none"]}
    \cup {[status |-> s, body |-> "none"] : s \in Statuses \ {200}}
    \cup {[status |-> 200, body |-> b] : b \in Bodies}

\* fetch rejected: there is no response
IsNetworkError(resp) == resp.status = 0

\* response.ok
ResponseOk(status) == status \in 200..299

\* A client that retries every response that is not ok.
RateLimitedOrFailed(status) == ~ResponseOk(status)

\* response.status === 429
RateLimited(status) == status = 429

BodyVector(text, body) ==
    IF body = "vector" THEN EmbeddingOf(text, ExpectedDimensions)
    ELSE EmbeddingOf(text, FormerDimensions)

\* the call after fetch settled with resp, up to its next await or its return
FilesAfterResponse(call, resp) ==
    LET seen == [call EXCEPT !.statuses = Append(call.statuses, resp.status),
                             !.body = resp.body]
    IN  IF IsNetworkError(resp)
        THEN Finish(seen, ReturnArray(EmptyArray), ErrorOf("network", 0))
        ELSE IF RateLimited(resp.status)
        THEN IF call.retries > 0
             THEN [seen EXCEPT !.pc = "backoff",
                               !.waits = Append(call.waits, WaitTime(call.retries))]
             ELSE Finish(seen, ReturnArray(EmptyArray), ErrorOf("rateLimit", resp.status))
        ELSE IF ~ResponseOk(resp.status)
        THEN Finish(seen, ReturnArray(EmptyArray), ErrorOf("requestFailed", resp.status))
        ELSE IF resp.body = "unparsable"
        THEN Finish(seen, ReturnArray(EmptyArray), ErrorOf("syntax", 0))
        ELSE IF resp.body = "null"
        THEN Finish(seen, ReturnArray(EmptyArray), ErrorOf("type", 0))
        ELSE IF resp.body \in {"noData", "emptyData", "noEmbedding", "notArray",
                               "emptyVector"}
        THEN Finish(seen, ReturnArray(EmptyArray), NoError)
        ELSE Finish(seen, ReturnArray(BodyVector(call.text, resp.body)), NoError)

\* A client that stores only embeddings of the expected length.
StoresExpectedOnly(resp) == resp.status = 200 /\ resp.body = "vector"

\* the response carried an embedding that the call stores
StoresEmbedding(resp) == resp.status = 200 /\ resp.body \in {"vector", "shortVector"}

\* the history of insertions after key was set in cache c
LogInsert(log, c, key) == IF CacheHas(c, key) THEN log ELSE Append(log, key)

\* no call of the page `site` is in progress.  FilesPage and ChatbotPage are routes
\* of one router and their calls share no state, so the model runs the calls of
\* one page at a time.
AllIdle(site) == \A c \in DOMAIN calls : calls[c].site # site \/ calls[c].pc = "done"

\* a caller calls generateEmbedding(text) of FilesPage
FilesStart(c, text) ==
    /\ calls[c].pc = "idle"
    /\ AllIdle("chat")
    /\ calls' = [calls EXCEPT ![c] = Settle(c, FilesEnter(IdleCall, text, 3, cache))]
    /\ UNCHANGED <<cache, insertLog>>
    /\ UNCHANGED <<scoreVars, rankVars, batch, pageVars>>

\* the request of call c is answered (the status, and the body that response.json()
\* then yields: the call touches no shared state between the two)
FilesRespond(c, resp) ==
    /\ calls[c].pc = "fetch" /\ calls[c].site = "files"
    /\ calls' = [calls EXCEPT ![c] = Settle(c, FilesAfterResponse(calls[c], resp))]
    /\ IF StoresEmbedding(resp)
       THEN /\ cache' = CacheStore(cache, calls[c].key, BodyVector(calls[c].text, resp.body))
            /\ insertLog' = LogInsert(insertLog, cache, calls[c].key)
       ELSE UNCHANGED <<cache, insertLog>>
    /\ UNCHANGED <<scoreVars, rankVars, batch, pageVars>>

\* the backoff timer of call c fires: generateEmbedding(text, retries - 1)
BackoffElapsed(c) ==
    /\ calls[c].pc = "backoff"
    /\ calls' = [calls EXCEPT ![c] =
          Settle(c, FilesEnter(calls[c], calls[c].text, calls[c].retries - 1, cache))]
    /\ UNCHANGED <<cache, insertLog>>
    /\ UNCHANGED <<scoreVars, rankVars, batch, pageVars>>

\* the caller of call c takes its result
Return(c) ==
    /\ calls[c].pc = "done"
    /\ calls' = [calls EXCEPT ![c] = IdleCall]
    /\ UNCHANGED <<cache, insertLog>>
    /\ UNCHANGED <<scoreVars, rankVars, batch, pageVars>>

\* generateEmbedding(text) of ChatbotPage up to its await: the request
ChatStart(c, text) ==
    /\ c = Observed
    /\ calls[c].pc = "idle"
    /\ AllIdle("files")
    /\ calls' = [calls EXCEPT ![c] =
                    [IdleCall EXCEPT !.site = "chat", !.text = text, !.pc = "fetch",
                                     !.requests = 1]]
    /\ UNCHANGED <<cache, insertLog>>
    /\ UNCHANGED <<scoreVars, rankVars, batch, pageVars>>

\* generateEmbedding of ChatbotPage after fetch settled with resp
ChatAfterResponse(call, resp) ==
    LET seen == [call EXCEPT !.statuses = Append(call.statuses, resp.status),
                             !.body = resp.body]
    IN  IF IsNetworkError(resp)
        THEN Finish(seen, ReturnArray(EmptyArray), ErrorOf("network", 0))
        ELSE IF ~ResponseOk(resp.status)
        THEN Finish(seen, ReturnArray(EmptyArray), ErrorOf("requestFailed", resp.status))
        ELSE IF resp.body = "unparsable"
        THEN Finish(seen, ReturnArray(EmptyArray), ErrorOf("syntax", 0))
        ELSE IF resp.body \in {"null", "noData", "emptyData"}
        THEN Finish(seen, ReturnArray(EmptyArray), ErrorOf("type", 0))
        ELSE IF resp.body = "noEmbedding" THEN Finish(seen, ReturnUndefined, NoError)
        ELSE IF resp.body = "notArray" THEN Finish(seen, ReturnNonArray, NoError)
        ELSE IF resp.body = "emptyVector" THEN Finish(seen, ReturnArray(EmptyArray), NoError)
        ELSE Finish(seen, ReturnArray(BodyVector(call.text, resp.body)), NoError)

ChatRespond(c, resp) ==
    /\ calls[c].pc = "fetch" /\ calls[c].site = "chat"
    /\ calls' = [calls EXCEPT ![c] = ChatAfterResponse(calls[c], resp)]
    /\ UNCHANGED <<cache, insertLog>>
    /\ UNCHANGED <<scoreVars, rankVars, batch, pageVars>>

(***************************************************************************)
(* The callers and their texts.                                            *)
(***************************************************************************)
\* the handlers that may have a call in progress at the same time
Callers == {"first", "second"}

\* the i-th of the texts embedded before the model starts: two lower case letters
WarmText(i) == <<97 + (i \div 10), 97 + (i % 10)>>

\* "", " ", "Aa", "BB", "C", and the first text embedded before the model starts
CallTexts == {<<>>, <<32>>, <<65, 97>>, <<66, 66>>, <<67>>, WarmText(1)}

\* The cache after n <= CacheLimit successful calls in a row, on WarmText(1) ..
\* WarmText(n), whose keys differ: each call's set appended one entry and no
\* trim removed any.
WarmCache(n) ==
    [i \in 1..n |-> [key |-> TextHash(WarmText(i)),
                     value |-> EmbeddingOf(WarmText(i), ExpectedDimensions)]]

\* the cache is empty (the component has mounted) and no call is in progress
EmbedIdle ==
    /\ cache = <<>>
    /\ calls = [c \in Callers |-> IdleCall]
    /\ insertLog = <<>>

(***************************************************************************)
(* The actions that embed: uploadFile, uploadFilesBatch,                   *)
(* regenerateEmbedding and regenerateAllEmbeddings of FilesPage.  An item  *)
(* is a file of the batch, or a resume without an embedding.               *)
(***************************************************************************)
\* files.length > 20 ? 2000 : files.length > 10 ? 1500 : 1000
UploadDelay(n) == IF n > 20 THEN 2000 ELSE IF n > 10 THEN 1500 ELSE 1000

\* setTimeout(resolve, 1500)
RegenerateDelay == 1500

\* what an action wrote into the embedding column of a row, if it wrote
NotWritten == [written |-> FALSE, isNull |-> TRUE, vec |-> EmptyArray]

Written(isNull, vec) == [written |-> TRUE, isNull |-> isNull, vec |-> vec]

\* An insert that stores the array it was given, empty or not.
InsertedAsIs(embedding) == Written(FALSE, embedding)

\* embedding: embedding.length > 0 ? embedding : null
InsertedEmbedding(embedding) ==
    IF embedding.dim > 0 THEN Written(FALSE, embedding) ELSE Written(TRUE, EmptyArray)

\* .update({ embedding })
UpdatedEmbedding(embedding) == Written(FALSE, embedding)

\* an item before its turn.  row is what the table holds of it: "absent",
\* "noEmbedding" (embedding null) or "embedding"; embedding is what generateEmbedding
\* returned for it, and stored what the action wrote into its embedding column
NewItem(content, row) ==
    [content |-> content, pc |-> "pending", call |-> IdleCall, embedded |-> FALSE,
     error |-> "none", row |-> row, raised |-> FALSE, waited |-> 0,
     embedding |-> EmptyArray, stored |-> NotWritten]

\* useState({ total: 0, completed: 0, failed: 0, current: '' })
NoProgress == [total |-> 0, completed |-> 0, failed |-> 0]

\* others: the resumes that regenerateAllEmbeddings leaves out; uploading and
\* uploadProgress: the page's state of these names
NoBatch == [kind |-> "none", items |-> <<>>, successCount |-> 0, failureCount |-> 0,
            finished |-> FALSE, others |-> <<>>, uploading |-> FALSE,
            uploadProgress |-> NoProgress]

\* uploadFilesBatch before its loop: setUploading(true), setUploadProgress({ total:
\* files.length, completed: 0, failed: 0 })
BatchBegins(b) ==
    IF b.kind = "upload"
    THEN [b EXCEPT !.uploading = TRUE,
                   !.uploadProgress = [NoProgress EXCEPT !.total = Len(b.items)]]
    ELSE b

\* the loop of uploadFilesBatch at file i sets completed: i, then uploadFile sets
\* uploading and a progress of one file
UploadBegins(b, i) ==
    IF b.kind = "upload"
    THEN LET looped == [b EXCEPT !.uploadProgress.completed = i - 1]
         IN  [looped EXCEPT !.uploading = TRUE,
                            !.uploadProgress = [NoProgress EXCEPT !.total = 1]]
    ELSE b

\* the finally clause of uploadFile: setUploading(false) and the progress reset
UploadFinally(b) ==
    IF b.kind = "upload"
    THEN [b EXCEPT !.uploading = FALSE, !.uploadProgress = NoProgress]
    ELSE b

\* the catch clause of the loop of uploadFilesBatch: failed: prev.failed + 1
ProgressFailed(b) ==
    IF b.kind = "upload" THEN [b EXCEPT !.uploadProgress.failed = @ + 1] ELSE b

\* after the loop of uploadFilesBatch: setUploading(false) and the progress reset
BatchEnds(b) == UploadFinally(b)

\* the item has been processed, and the delay after it, if any, has passed
IsFinal(item) == item.pc \in {"succeeded", "failed"}

\* A batch that starts an item without awaiting the items before it.
MayStartUnawaited(b, i) == b.items[i].pc = "pending"

\* the for loop reaches item i: every item before it has been awaited
MayStart(b, i) == b.items[i].pc = "pending" /\ \A j \in 1..(i - 1) : IsFinal(b.items[j])

\* A batch that does not count its failures.
CountNothing(b) == b

\* failureCount++, failCount++
CountFailure(b) ==
    IF b.kind = "regenerateOne" THEN b ELSE [b EXCEPT !.failureCount = @ + 1]

\* successCount++
CountSuccess(b) ==
    IF b.kind = "regenerateOne" THEN b ELSE [b EXCEPT !.successCount = @ + 1]

\* the delay between two items of the batch
DelayOf(b) == IF b.kind = "upload" THEN UploadDelay(Len(b.items)) ELSE RegenerateDelay

\* item i failed: its catch clause runs, and the loop goes on at once.  raised says
\* that uploadFile rethrew the error to its caller
Fail(b, i, raised) ==
    ProgressFailed(UploadFinally(
        CountFailure([b EXCEPT !.items[i].pc = "failed", !.items[i].call = IdleCall,
                               !.items[i].raised = raised])))

\* item i succeeded: it is counted, and unless it is the last the batch waits
Succeed(b, i) ==
    UploadFinally(
        IF b.kind # "regenerateOne" /\ i < Len(b.items)
        THEN [CountSuccess(b) EXCEPT !.items[i].pc = "delay", !.items[i].call = IdleCall,
                                     !.items[i].waited = DelayOf(b)]
        ELSE [CountSuccess(b) EXCEPT !.items[i].pc = "succeeded",
                                     !.items[i].call = IdleCall])

\* An upload that gives up when it got no embedding.
UploadRejectsEmpty(b, i, embedded) ==
    IF embedded THEN [b EXCEPT !.items[i].pc = "store"] ELSE Fail(b, i, TRUE)

\* uploadFile after generateEmbedding returned: it warns when the embedding is empty
\* and goes on to store the file
UploadAfterEmbed(b, i, embedded) == [b EXCEPT !.items[i].pc = "store"]

\* regenerateEmbedding and regenerateAllEmbeddings after generateEmbedding returned
RegenerateAfterEmbed(b, i, embedded) ==
    IF embedded THEN [b EXCEPT !.items[i].pc = "store"] ELSE Fail(b, i, FALSE)

\* item i after a step of its generateEmbedding call
AfterEmbed(b, i, call) ==
    IF call.pc # "done" THEN [b EXCEPT !.items[i].pc = "embed", !.items[i].call = call]
    ELSE LET embedded == call.result.vec # EmptyArray
             seen == [b EXCEPT !.items[i].call = IdleCall,
                               !.items[i].embedded = embedded,
                               !.items[i].embedding = call.result.vec,
                               !.items[i].error = call.error.kind]
         IN  IF b.kind = "upload" THEN UploadAfterEmbed(seen, i, embedded)
             ELSE RegenerateAfterEmbed(seen, i, embedded)

\* what the storage bucket and the table may answer: the row is written; the upload
\* or the write is refused; or (uploadFile, DOCX not supported by the bucket) the
\* user cancels and nothing is written
StoreOutcomes(kind) ==
    IF kind = "upload" THEN {"stored", "refused", "cancelled"} ELSE {"stored", "refused"}

\* item i after the storage upload and the insert, or after the update
AfterStore(b, i, outcome) ==
    IF outcome = "refused" THEN Fail(b, i, b.kind = "upload")
    ELSE IF outcome = "cancelled" THEN Succeed(b, i)
    ELSE Succeed([b EXCEPT !.items[i].row =
                     IF b.items[i].embedded THEN "embedding" ELSE "noEmbedding",
                           !.items[i].stored =
                     IF b.kind = "upload" THEN InsertedEmbedding(b.items[i].embedding)
                     ELSE UpdatedEmbedding(b.items[i].embedding)], i)

\* no batch is modelled
BatchIdle == batch = NoBatch

(***************************************************************************)
(* Ranking: findSimilarResumes of FilesPage and of ChatbotPage.            *)
(***************************************************************************)
\* a content column: null, or a string
NoContent == [isNull |-> TRUE, t |-> <<>>]

Content(t) == [isNull |-> FALSE, t |-> t]

\* the string is truthy: neither null nor ""
HasContent(c) == ~c.isNull /\ c.t # <<>>

\* the value is truthy as an embedding: an array, even an empty one
HasEmbedding(e) == ~e.isNull

\* (count: number = 5)
DefaultCount == 5

\* .slice(0, 10)
ChatCount == 10

\* A filter that keeps a resume that has an embedding or a content.
FilesKeepsEither(r, targetResume) ==
    r.id # targetResume.id /\ (HasEmbedding(r.embedding) \/ HasContent(r.content))

\* r => r.id !== targetResume.id && r.embedding && r.content
FilesKeeps(r, targetResume) ==
    r.id # targetResume.id /\ HasEmbedding(r.embedding) /\ HasContent(r.content)

\* resumes.filter(...) for the resumes at and after index i
RECURSIVE FilesFilterFrom(_, _, _)
FilesFilterFrom(resumes, targetResume, i) ==
    IF i > Len(resumes) THEN <<>>
    ELSE IF FilesKeeps(resumes[i], targetResume)
         THEN <<resumes[i]>> \o FilesFilterFrom(resumes, targetResume, i + 1)
         ELSE FilesFilterFrom(resumes, targetResume, i + 1)

\* .map(resume => ({...resume, similarity: calculateEnhancedSimilarity(...)}))
FilesMap(kept, targetResume) ==
    [i \in 1..Len(kept) |->
        [id |-> kept[i].id,
         similarity |-> calculateEnhancedSimilarity(
                            targetResume.embedding, kept[i].embedding,
                            targetResume.content.t, kept[i].content.t).score]]

\* An insertion that puts x before the elements of its own similarity.
InsertBeforeTies(sorted, x) ==
    LET before == {i \in 1..Len(sorted) : FLess(x.similarity, sorted[i].similarity)}
        n == Cardinality(before)
    IN  SubSeq(sorted, 1, n) \o <<x>> \o SubSeq(sorted, n + 1, Len(sorted))

\* x inserted into a list sorted by (a, b) => b.similarity - a.similarity, after every
\* element the comparator does not put behind it: the sort is stable
InsertSorted(sorted, x) ==
    LET before == {i \in 1..Len(sorted) : ~FLess(sorted[i].similarity, x.similarity)}
        n == Cardinality(before)
    IN  SubSeq(sorted, 1, n) \o <<x>> \o SubSeq(sorted, n + 1, Len(sorted))

RECURSIVE SortFrom(_, _, _)
SortFrom(s, i, sorted) ==
    IF i > Len(s) THEN sorted ELSE SortFrom(s, i + 1, InsertSorted(sorted, s[i]))

\* .sort((a, b) => b.similarity - a.similarity)
SortBySimilarity(s) == SortFrom(s, 1, <<>>)

\* .slice(0, count), for count >= 0
Slice0(s, count) == SubSeq(s, 1, Min2(count, Len(s)))

\* no ranking call has been made
NotRanked ==
    [site |-> "none", count |-> 0, scored |-> <<>>, returned |-> <<>>, caught |-> "none"]

\* findSimilarResumes(targetResume, count) of FilesPage: what it returns, and the
\* candidates it scored
FilesFindSimilarResumes(resumes, targetResume, count) ==
    IF ~HasEmbedding(targetResume.embedding) \/ ~HasContent(targetResume.content)
    THEN [site |-> "files", count |-> count, scored |-> <<>>, returned |-> <<>>, caught |-> "none"]
    ELSE LET similarities ==
                 FilesMap(FilesFilterFrom(resumes, targetResume, 1), targetResume)
         IN  [site |-> "files", count |-> count, scored |-> similarities,
              returned |-> Slice0(SortBySimilarity(similarities), count),
              caught |-> "none"]

\* the body of resumes.map(...) of ChatbotPage for the resumes at and after index i,
\* and .filter(Boolean)
RECURSIVE ChatMapFrom(_, _, _, _)
ChatMapFrom(resumes, jobEmbedding, jobDescription, i) ==
    IF i > Len(resumes) THEN <<>>
    ELSE LET resume == resumes[i]
             content == IF HasContent(resume.content) THEN resume.content.t ELSE <<>>
             scored == IF ~HasEmbedding(resume.embedding) THEN NoScore
                       ELSE ChatSimilarity(jobEmbedding, resume.embedding,
                                           jobDescription, content)
             rest == ChatMapFrom(resumes, jobEmbedding, jobDescription, i + 1)
         IN  IF scored.dropped THEN rest
             ELSE <<[id |-> resume.id, similarity |-> scored.score]>> \o rest

\* .not('embedding', 'is', null): the rows the query returns
RECURSIVE WithEmbeddingFrom(_, _)
WithEmbeddingFrom(resumes, i) ==
    IF i > Len(resumes) THEN <<>>
    ELSE IF HasEmbedding(resumes[i].embedding)
         THEN <<resumes[i]>> \o WithEmbeddingFrom(resumes, i + 1)
         ELSE WithEmbeddingFrom(resumes, i + 1)

\* findSimilarResumes(jobDescription) of ChatbotPage, given what generateEmbedding
\* returned for the job description and whether the query of the resumes failed
ChatFindSimilarResumes(resumes, jobEmbedding, jobDescription, queryFails) ==
    IF ~HasEmbedding(jobEmbedding)
    THEN [site |-> "chat", count |-> ChatCount, scored |-> <<>>, returned |-> <<>>, caught |-> "type"]
    ELSE IF Len(jobEmbedding.v) = 0
    THEN [site |-> "chat", count |-> ChatCount, scored |-> <<>>, returned |-> <<>>, caught |-> "noEmbedding"]
    ELSE IF queryFails
    THEN [site |-> "chat", count |-> ChatCount, scored |-> <<>>, returned |-> <<>>, caught |-> "query"]
    ELSE LET similarities ==
                 ChatMapFrom(WithEmbeddingFrom(resumes, 1), jobEmbedding,
                             jobDescription, 1)
         IN  [site |-> "chat", count |-> ChatCount, scored |-> similarities,
              returned |-> Slice0(SortBySimilarity(similarities), ChatCount),
              caught |-> "none"]

\* no ranking call is modelled
RankIdle ==
    /\ rankArgs = [resumes |-> <<>>,
                   query |-> [id |-> 0, embedding |-> Missing, content |-> NoContent]]
    /\ ranking = NotRanked

(***************************************************************************)
(* The text normalizer: preprocessTextForEmbedding of FilesPage, and the   *)
(* text generateEmbedding sends.                                           *)
(***************************************************************************)
\* the character cap of the text that is embedded
CharLimit == 7500

\* skillKeywords
skillKeywords ==
    << <<106, 97, 118, 97, 115, 99, 114, 105, 112, 116>>,    \* javascript
       <<116, 121, 112, 101, 115, 99, 114, 105, 112, 116>>,    \* typescript
       <<112, 121, 116, 104, 111, 110>>,    \* python
       <<114, 101, 97, 99, 116>>,    \* react
       <<110, 111, 100, 101>>,    \* node
       <<115, 113, 108>>,    \* sql
       <<97, 119, 115>>,    \* aws
       <<97, 122, 117, 114, 101>>,    \* azure
       <<100, 111, 99, 107, 101, 114>>,    \* docker
       <<107, 117, 98, 101, 114, 110, 101, 116, 101, 115>>,    \* kubernetes
       <<103, 105, 116>>,    \* git
       <<97, 103, 105, 108, 101>>,    \* agile
       <<115, 99, 114, 117, 109>>,    \* scrum
       <<109, 97, 99, 104, 105, 110, 101, 32, 108, 101, 97, 114, 110, 105, 110, 103>>,    \* machine learning
       <<97, 105>>,    \* ai
       <<97, 112, 105>>,    \* api
       <<100, 97, 116, 97, 98, 97, 115, 101>>,    \* database
       <<102, 114, 111, 110, 116, 101, 110, 100>>,    \* frontend
       <<98, 97, 99, 107, 101, 110, 100>>,    \* backend
       <<102, 117, 108, 108, 115, 116, 97, 99, 107>>,    \* fullstack
       <<109, 111, 98, 105, 108, 101>>,    \* mobile
       <<119, 101, 98>>,    \* web
       <<99, 108, 111, 117, 100>>,    \* cloud
       <<100, 101, 118, 111, 112, 115>>,    \* devops
       <<99, 105, 47, 99, 100>> >>    \* ci/cd

\* experienceKeywords
experienceKeywords ==
    << <<121, 101, 97, 114, 115>>,    \* years
       <<101, 120, 112, 101, 114, 105, 101, 110, 99, 101>>,    \* experience
       <<115, 101, 110, 105, 111, 114>>,    \* senior
       <<108, 101, 97, 100>>,    \* lead
       <<109, 97, 110, 97, 103, 101, 114>>,    \* manager
       <<100, 105, 114, 101, 99, 116, 111, 114>>,    \* director
       <<97, 114, 99, 104, 105, 116, 101, 99, 116>>,    \* architect
       <<100, 101, 118, 101, 108, 111, 112, 101, 100>>,    \* developed
       <<105, 109, 112, 108, 101, 109, 101, 110, 116, 101, 100>>,    \* implemented
       <<109, 97, 110, 97, 103, 101, 100>>,    \* managed
       <<100, 101, 115, 105, 103, 110, 101, 100>>,    \* designed
       <<98, 117, 105, 108, 116>>,    \* built
       <<99, 114, 101, 97, 116, 101, 100>>,    \* created
       <<108, 101, 100>> >>    \* led

\* the words of the educationLines filter
EducationWords ==
    << <<101, 100, 117, 99, 97, 116, 105, 111, 110>>,    \* education
       <<117, 110, 105, 118, 101, 114, 115, 105, 116, 121>>,    \* university
       <<99, 111, 108, 108, 101, 103, 101>>,    \* college
       <<100, 101, 103, 114, 101, 101>>,    \* degree
       <<98, 97, 99, 104, 101, 108, 111, 114>>,    \* bachelor
       <<109, 97, 115, 116, 101, 114>>,    \* master
       <<112, 104, 100>> >>    \* phd

\* the words of the skillLines filter, before skillKeywords
SkillWords ==
    << <<115, 107, 105, 108, 108>>,    \* skill
       <<116, 101, 99, 104, 110, 111, 108, 111, 103>>,    \* technolog
       <<112, 114, 111, 103, 114, 97, 109, 109, 105, 110, 103>>,    \* programming
       <<108, 97, 110, 103, 117, 97, 103, 101>> >>    \* language

\* the words of the experienceLines filter, before experienceKeywords
ExperienceWords ==
    << <<101, 120, 112, 101, 114, 105, 101, 110, 99, 101>>,    \* experience
       <<119, 111, 114, 107>>,    \* work
       <<101, 109, 112, 108, 111, 121, 109, 101, 110, 116>>,    \* employment
       <<112, 111, 115, 105, 116, 105, 111, 110>> >>    \* position

\* the words of the achievementLines filter
AchievementWords ==
    << <<112, 114, 111, 106, 101, 99, 116>>,    \* project
       <<97, 99, 104, 105, 101, 118, 101, 109, 101, 110, 116>>,    \* achievement
       <<97, 99, 99, 111, 109, 112, 108, 105, 115, 104, 109, 101, 110, 116>>,    \* accomplishment
       <<97, 119, 97, 114, 100>>,    \* award
       <<99, 101, 114, 116, 105, 102, 105, 99, 97, 116, 105, 111, 110>> >>    \* certification

\* str.includes(k), k not empty
StrIncludes(str, k) ==
    \E i \in 1..(Len(str) - Len(k) + 1) :
        str[i] = k[1] /\ SubSeq(str, i, i + Len(k) - 1) = k

\* words.some(w => lower.includes(w))
SomeIncluded(words, lower) == \E j \in 1..Len(words) : StrIncludes(lower, words[j])

RECURSIVE SplitLinesFrom(_, _)
SplitLinesFrom(text, start) ==
    LET nl == {i \in start..Len(text) : text[i] = 10}
    IN  IF nl = {} THEN <<SubSeq(text, start, Len(text))>>
        ELSE LET p == CHOOSE i \in nl : \A j \in nl : i <= j
             IN  <<SubSeq(text, start, p - 1)>> \o SplitLinesFrom(text, p + 1)

\* text.split('\n').map(line => line.trim()).filter(line => line.length > 0)
TrimmedLines(text) ==
    LET split == SplitLinesFrom(text, 1)
    IN  SelectSeq([i \in 1..Len(split) |-> Trim(split[i])], LAMBDA line : Len(line) > 0)

RECURSIVE JoinLines(_)
\* arr.join('\n')
JoinLines(arr) ==
    IF arr = <<>> THEN <<>>
    ELSE IF Len(arr) = 1 THEN arr[1]
    ELSE arr[1] \o <<10>> \o JoinLines(Tail(arr))

RECURSIVE Flatten(_)
Flatten(seqs) == IF seqs = <<>> THEN <<>> ELSE Head(seqs) \o Flatten(Tail(seqs))

(* A regular expression is matched piece by piece.  A piece takes the      *)
(* positions the match may have reached, the one backtracking tries first  *)
(* coming first, and gives the positions it may reach after the piece, in  *)
(* the same order.  A position is the index of the next code unit.         *)
IsDigit(c) == c \in 48..57

\* [-.\s]
IsSeparator(c) == c \in {45, 46} \/ IsWhitespace(c)

\* [A-Za-z0-9._%+-]
IsLocalChar(c) == IsDigit(c) \/ c \in 65..90 \/ c \in 97..122 \/ c \in {46, 95, 37, 43, 45}

\* [A-Za-z0-9.-]
IsDomainChar(c) == IsDigit(c) \/ c \in 65..90 \/ c \in 97..122 \/ c \in {46, 45}

\* [A-Z|a-z]
IsTldChar(c) == c \in 65..90 \/ c \in 97..122 \/ c = 124

\* the code units of class kind
InClass(kind, c) ==
    CASE kind = "digit" -> IsDigit(c)
      [] kind = "separator" -> IsSeparator(c)
      [] kind = "local" -> IsLocalChar(c)
      [] kind = "domain" -> IsDomainChar(c)
      [] kind = "tld" -> IsTldChar(c)
      [] kind = "plus" -> c = 43
      [] kind = "open" -> c = 40
      [] kind = "close" -> c = 41
      [] kind = "at" -> c = 64
      [] kind = "dot" -> c = 46

\* the number of code units of class kind that t has in a row from position p
RunLength(t, p, kind) ==
    IF p > Len(t) \/ ~InClass(kind, t[p]) THEN 0
    ELSE LET stops == {i \in p..Len(t) : ~InClass(kind, t[i])}
         IN  IF stops = {} THEN Len(t) - p + 1
             ELSE (CHOOSE i \in stops : \A j \in stops : i <= j) - p

\* the piece c{lo,hi}, greedy: the longest repetition first
Repeat(t, ps, kind, lo, hi) ==
    Flatten([n \in 1..Len(ps) |->
                LET most == Min2(RunLength(t, ps[n], kind), hi)
                IN  IF most < lo THEN <<>>
                    ELSE [k \in 1..(most - lo + 1) |-> ps[n] + most - k + 1]])

\* a piece of a pattern: a class repeated lo to hi times (hi = 0: any number of
\* times), or \b
Class(kind, lo, hi) == [kind |-> kind, lo |-> lo, hi |-> hi]

Boundary == [kind |-> "boundary", lo |-> 0, hi |-> 0]

\* the positions after piece
Piece(t, ps, piece) ==
    IF piece.kind = "boundary" THEN SelectSeq(ps, LAMBDA p : WordBoundary(t, p))
    ELSE Repeat(t, ps, piece.kind, piece.lo, IF piece.hi = 0 THEN Len(t) ELSE piece.hi)

RECURSIVE MatchFrom(_, _, _, _)
\* the positions after the pieces k, k + 1, ... of pattern
MatchFrom(t, ps, pattern, k) ==
    IF k > Len(pattern) THEN ps
    ELSE MatchFrom(t, Piece(t, ps, pattern[k]), pattern, k + 1)

\* (\+?\d{1,3}[-.\s]?)?
PhonePrefix == <<Class("plus", 0, 1), Class("digit", 1, 3), Class("separator", 0, 1)>>

\* \(?\d{3}\)?[-.\s]?\d{3}[-.\s]?\d{4}
PhoneNumber ==
    <<Class("open", 0, 1), Class("digit", 3, 3), Class("close", 0, 1),
      Class("separator", 0, 1), Class("digit", 3, 3), Class("separator", 0, 1),
      Class("digit", 4, 4)>>

\* \b[A-Za-z0-9._%+-]+@[A-Za-z0-9.-]+\.[A-Z|a-z]{2,}\b
EmailPattern ==
    <<Boundary, Class("local", 1, 0), Class("at", 1, 1), Class("domain", 1, 0),
      Class("dot", 1, 1), Class("tld", 2, 0), Boundary>>

\* where a match of regex that starts at position p may end.  The optional group of
\* phoneRegex is tried first, and skipped if the rest does not match after it
RegexEnds(regex, t, p) ==
    IF regex = "email" THEN MatchFrom(t, <<p>>, EmailPattern, 1)
    ELSE MatchFrom(t, MatchFrom(t, <<p>>, PhonePrefix, 1) \o <<p>>, PhoneNumber, 1)

\* text.match(regex) || []: its first element in a sequence, or the empty sequence
FirstMatch(regex, t) ==
    LET starts == {p \in 1..Len(t) : RegexEnds(regex, t, p) # <<>>}
    IN  IF starts = {} THEN <<>>
        ELSE LET p == CHOOSE i \in starts : \A j \in starts : i <= j
             IN  <<SubSeq(t, p, Head(RegexEnds(regex, t, p)) - 1)>>

\* 'Email: ' and 'Phone: '
EmailLabel == <<69, 109, 97, 105, 108, 58, 32>>

PhoneLabel == <<80, 104, 111, 110, 101, 58, 32>>

\* 'EDUCATION:', 'SKILLS:', 'EXPERIENCE:' and 'PROJECTS & ACHIEVEMENTS:'
EducationHeader == <<69, 68, 85, 67, 65, 84, 73, 79, 78, 58>>

SkillsHeader == <<83, 75, 73, 76, 76, 83, 58>>

ExperienceHeader == <<69, 88, 80, 69, 82, 73, 69, 78, 67, 69, 58>>

AchievementsHeader ==
    <<80, 82, 79, 74, 69, 67, 84, 83, 32, 38, 32, 65, 67, 72, 73, 69, 86, 69, 77, 69,
      78, 84, 83, 58>>

\* lines.filter(line => some word of words is in line.toLowerCase())
LinesWith(lines, words) ==
    SelectSeq(lines, LAMBDA line : SomeIncluded(words, ToLowerCase(line)))

\* a section of importantSections: its header and its first count lines, if any
Section(header, lines, count) ==
    IF Len(lines) > 0 THEN <<header>> \o Slice0(lines, count) ELSE <<>>

\* processedText || text.substring(0, 7500)
OrElse(processedText, text) ==
    IF processedText # <<>> THEN processedText ELSE Substring0(text, CharLimit)

\* A normalizer that does not cut its prioritized text.
PrioritizedUncut(priority) == JoinLines(priority)

\* priority.join('\n').substring(0, 7500)
Prioritized(priority) == Substring0(JoinLines(priority), CharLimit)

\* preprocessTextForEmbedding(text)
preprocessTextForEmbedding(text) ==
    LET lines == TrimmedLines(text)
        emails == FirstMatch("email", text)
        phones == FirstMatch("phone", text)
        educationLines == LinesWith(lines, EducationWords)
        skillLines == LinesWith(lines, SkillWords \o skillKeywords)
        experienceLines == LinesWith(lines, ExperienceWords \o experienceKeywords)
        achievementLines == LinesWith(lines, AchievementWords)
        importantSections ==
            (IF Len(emails) > 0 THEN <<EmailLabel \o emails[1]>> ELSE <<>>)
            \o (IF Len(phones) > 0 THEN <<PhoneLabel \o phones[1]>> ELSE <<>>)
            \o Section(EducationHeader, educationLines, 3)
            \o Section(SkillsHeader, skillLines, 5)
            \o Section(ExperienceHeader, experienceLines, 8)
            \o Section(AchievementsHeader, achievementLines, 5)
        joined == JoinLines(importantSections)
        priority == Slice0(skillLines, 3) \o Slice0(experienceLines, 5)
                    \o Slice0(educationLines, 2) \o Slice0(achievementLines, 3)
        processedText == IF Len(joined) > CharLimit THEN Prioritized(priority) ELSE joined
    IN  OrElse(processedText, text)

\* finalText of generateEmbedding
FinalText(processedText) ==
    IF Len(processedText) > CharLimit THEN Substring0(processedText, CharLimit)
    ELSE processedText

\* no text is being normalized
NoNorm == [pc |-> "idle", text |-> <<>>, processed |-> <<>>, final |-> <<>>]

NormIdle == norm = NoNorm

(***************************************************************************)
(* The chat history of ChatbotPage: loadChatHistory, saveChatMessage,      *)
(* clearChatHistory and handleSubmit.  A handler runs from its call to its *)
(* end before the next one starts.                                         *)
(***************************************************************************)
\* a Message of the page; its id is the clock's reading when it was created
Message(id, role, content) == [id |-> id, role |-> role, content |-> content]

\* the row saveChatMessage inserts for message
RowOf(message) ==
    [message_id |-> message.id, role |-> message.role, content |-> message.content]

\* the Message loadChatHistory makes of a row
MessageOf(row) == [id |-> row.message_id, role |-> row.role, content |-> row.content]

\* saveChatMessage(message): the insert is accepted or refused; a refusal is only
\* logged
saveChatMessage(c, message, accepted) ==
    IF accepted THEN [c EXCEPT !.rows = Append(@, RowOf(message))]
    ELSE [c EXCEPT !.refused = TRUE]

\* setMessages(prev => [...prev, message]); await saveChatMessage(message)
ShowAndSave(c, message, accepted) ==
    saveChatMessage([c EXCEPT !.messages = Append(@, message)], message, accepted)

\* setMessages([welcomeMessage]), with 'welcome-' + Date.now() as id
ShowWelcome(c) ==
    [c EXCEPT !.messages = <<Message(c.clock, "assistant", "welcome")>>,
              !.clock = c.clock + 1]

\* loadChatHistory(): the select returns the rows in the order of created_at, or fails
loadChatHistory(c, selected, accepted) ==
    IF ~selected THEN ShowWelcome(c)
    ELSE IF Len(c.rows) > 0
    THEN [c EXCEPT !.messages = [i \in 1..Len(c.rows) |-> MessageOf(c.rows[i])]]
    ELSE saveChatMessage(ShowWelcome(c), Message(c.clock, "assistant", "welcome"),
                         accepted)

\* clearChatHistory(): the user confirms or not, and the delete is accepted or not
clearChatHistory(c, confirmed, deleted, accepted) ==
    IF ~confirmed \/ ~deleted THEN c
    ELSE saveChatMessage(ShowWelcome([c EXCEPT !.rows = <<>>]),
                         Message(c.clock, "assistant", "welcome"), accepted)

\* handleSubmit(e) with an input that is not blank: the user's message, then the
\* reply of the assistant, or the error message when building the reply threw
handleSubmit(c, replied, accepted1, accepted2) ==
    LET userMessage == Message(c.clock, "user", "input")
        reply == Message(c.clock + 1, "assistant", IF replied THEN "reply" ELSE "error")
        asked == ShowAndSave(c, userMessage, accepted1)
    IN  [ShowAndSave(asked, reply, accepted2) EXCEPT !.clock = c.clock + 2]

\* the page before it has mounted.  refused: an insert was refused; failed: a
\* select failed
NoChat == [messages |-> <<>>, rows |-> <<>>, clock |-> 0, refused |-> FALSE,
           failed |-> FALSE, loads |-> 0]

ChatIdle == chat = NoChat

(***************************************************************************)
(* The resumes table and the storage bucket: uploadFile's size checks and   *)
(* its writes, and cleanupOrphanedRecords.                                  *)
(***************************************************************************)
MB == 1024 * 1024

\* const maxFileSize = 100 * 1024 * 1024
maxFileSize == 100 * MB

\* const maxTotalStorage = 500 * 1024 * 1024
maxTotalStorage == 500 * MB

\* file_path: '' of a row saved without a file; the other paths are numbered
NoPath == 0

\* a row of the resumes table
Resume(id, file_path, file_size) ==
    [id |-> id, file_path |-> file_path, file_size |-> file_size]

\* existingResumes.reduce((sum, resume) => sum + resume.file_size, 0) || 0
RECURSIVE SumSizes(_)
SumSizes(rows) ==
    IF rows = <<>> THEN 0 ELSE Head(rows).file_size + SumSizes(Tail(rows))

\* an uploadFile call: its file's size, where it stands, and the storage used that
\* its select returned
NoUpload == [pc |-> "idle", size |-> 0, used |-> 0]

\* uploadFile(file) up to the end of its size checks: it throws when the file is
\* over 100MB or when the rows selected and the file are over 500MB together
UploadChecked(f, size) ==
    LET currentStorageUsed == SumSizes(f.rows)
    IN  IF size > maxFileSize THEN [NoUpload EXCEPT !.pc = "rejected", !.size = size]
        ELSE IF currentStorageUsed + size > maxTotalStorage
        THEN [NoUpload EXCEPT !.pc = "rejected", !.size = size,
                              !.used = currentStorageUsed]
        ELSE [NoUpload EXCEPT !.pc = "store", !.size = size, !.used = currentStorageUsed]

\* what the bucket and the table may answer to uploadFile: the file and its row are
\* written; the bucket refuses a DOCX and the user saves the text only; the bucket
\* refuses; or the bucket takes the file and the table refuses the row
UploadOutcomes == {"stored", "textOnly", "uploadRefused", "insertRefused"}

\* uploadFile(file) from storage.upload(filePath, file) to its return
UploadStored(f, u, outcome) ==
    LET id == f.nextId
        size == f.uploads[u].size
        done == [f EXCEPT !.uploads[u].pc = "done"]
    IN  IF outcome = "stored"
        THEN [done EXCEPT !.nextId = id + 1, !.objects = @ \cup {id},
                          !.rows = Append(@, Resume(id, id, size))]
        ELSE IF outcome = "textOnly"
        THEN [done EXCEPT !.nextId = id + 1, !.rows = Append(@, Resume(id, NoPath, size))]
        ELSE IF outcome = "insertRefused"
        THEN [done EXCEPT !.nextId = id + 1, !.objects = @ \cup {id},
                          !.uploads[u].pc = "failed"]
        ELSE [done EXCEPT !.uploads[u].pc = "failed"]

\* supabase.storage.from('resumes').download(path) answers with an error: the bucket
\* has no object of this path, and none has the empty path
DownloadFails(f, path) == path \notin f.objects

\* cleanupOrphanedRecords(): the rows whose download fails are deleted.  cleaned
\* keeps each row it deleted, with whether the row had a path and the bucket the file
Cleaned(f) ==
    LET orphaned == {i \in 1..Len(f.rows) : DownloadFails(f, f.rows[i].file_path)}
        Keeps(r) == ~DownloadFails(f, r.file_path)
    IN  [f EXCEPT !.rows = SelectSeq(@, Keeps),
                  !.cleaned = @ \cup {[row |-> f.rows[i],
                                        present |-> f.rows[i].file_path \in f.objects] :
                                          i \in orphaned}]

NoFiles == [rows |-> <<>>, objects |-> {}, nextId |-> 1,
            uploads |-> [u \in 1..MaxUploads |-> NoUpload], cleaned |-> {}]

FilesIdle == files = NoFiles

\* the parts of the pages that a specification leaves out are at rest
PageIdle == NormIdle /\ ChatIdle /\ FilesIdle

(***************************************************************************)
(* Inputs of the scorer.                                                   *)
(***************************************************************************)
Components == {0, 1}

RECURSIVE VectorsOfDim(_)
VectorsOfDim(d) ==
    IF d = 0 THEN {<<>>}
    ELSE {Append(v, c) : v \in VectorsOfDim(d - 1), c \in Components}

\* every vector of at most MaxDim components, an opposite pair, and two nearly
\* parallel vectors whose cosine is rounded above 1
Embeddings ==
    {Missing} \cup {Vector(v) : v \in UNION {VectorsOfDim(d) : d \in 0..MaxDim}
                                       \cup {<<-1, 0>>, <<11, 22>>, <<11, 23>>}}

Words ==
    { <<87, 111, 114, 107>>,     \* "Work": a section word, and a keyword
      <<106, 97, 118, 97>> }    \* "java": a keyword

RECURSIVE TextsOfWords(_)
TextsOfWords(n) ==
    IF n = 0 THEN {<<>>}
    ELSE IF n = 1 THEN Words
    ELSE {t \o <<32>> \o w : t \in TextsOfWords(n - 1), w \in Words}

Texts == UNION {TextsOfWords(n) : n \in 0..MaxWords}

Unscored == [score |-> FZero, early |-> "unscored"]

ScoreInit ==
    /\ scoreArgs \in [e1 : Embeddings, e2 : Embeddings, t1 : Texts, t2 : Texts]
    /\ scorePc = "args"
    /\ filesScore = [fwd |-> Unscored, swp |-> Unscored]
    /\ chatScore = NoScore
    /\ EmbedIdle
    /\ RankIdle
    /\ BatchIdle
    /\ PageIdle

\* FilesPage scores the pair, and the pair with its sides swapped
ScoreFiles ==
    /\ scorePc = "args"
    /\ filesScore' =
         [fwd |-> calculateEnhancedSimilarity(scoreArgs.e1, scoreArgs.e2,
                                              scoreArgs.t1, scoreArgs.t2),
          swp |-> calculateEnhancedSimilarity(scoreArgs.e2, scoreArgs.e1,
                                              scoreArgs.t2, scoreArgs.t1)]
    /\ scorePc' = "files"
    /\ UNCHANGED <<scoreArgs, chatScore>>
    /\ UNCHANGED <<embedVars, rankVars, batch, pageVars>>

\* ChatbotPage scores the same pair: e1, t1 the job description, e2, t2 the resume
ScoreChat ==
    /\ scorePc = "files"
    /\ chatScore' = ChatSimilarity(scoreArgs.e1, scoreArgs.e2, scoreArgs.t1, scoreArgs.t2)
    /\ scorePc' = "chat"
    /\ UNCHANGED <<scoreArgs, filesScore>>
    /\ UNCHANGED <<embedVars, rankVars, batch, pageVars>>

ScoreNext == ScoreFiles \/ ScoreChat

SpecScore == ScoreInit /\ [][ScoreNext]_vars

(***************************************************************************)
(* The embedding client: any caller may start a call while another call is *)
(* suspended at its request or at its backoff delay.                       *)
(***************************************************************************)
ScoreIdle ==
    /\ scoreArgs = [e1 |-> Missing, e2 |-> Missing, t1 |-> <<>>, t2 |-> <<>>]
    /\ scorePc = "idle"
    /\ filesScore = [fwd |-> Unscored, swp |-> Unscored]
    /\ chatScore = NoScore

Init == ScoreIdle /\ EmbedIdle /\ RankIdle /\ BatchIdle /\ PageIdle

\* the number of calls that filled the cache before the model starts
WarmCalls == CacheLimit - 1

\* the cache holds the embeddings of WarmCalls earlier calls
InitWarm ==
    /\ ScoreIdle
    /\ RankIdle
    /\ BatchIdle
    /\ PageIdle
    /\ cache = WarmCache(WarmCalls)
    /\ calls = [c \in Callers |-> IdleCall]
    /\ insertLog = CacheKeys(WarmCache(WarmCalls))

Next ==
    \E c \in Callers :
        \/ \E text \in CallTexts : FilesStart(c, text)
        \/ \E resp \in Responses : FilesRespond(c, resp)
        \/ BackoffElapsed(c)
        \/ \E text \in CallTexts : ChatStart(c, text)
        \/ \E resp \in Responses : ChatRespond(c, resp)
        \/ Return(c)

Spec == Init /\ [][Next]_vars

SpecWarm == InitWarm /\ [][Next]_vars

(***************************************************************************)
(* One ranking call: the resumes and the query are drawn, then FilesPage   *)
(* or ChatbotPage ranks them.                                              *)
(***************************************************************************)
\* what a resume of the list may hold: its embedding and its content "java"
ResumeKinds ==
    LET java == Content(<<106, 97, 118, 97>>)
    IN  { [embedding |-> Missing,             content |-> java],
          [embedding |-> Missing,             content |-> NoContent],
          [embedding |-> Vector(<<>>),        content |-> java],
          [embedding |-> Vector(<<1>>),       content |-> java],
          [embedding |-> Vector(<<1, 0>>),    content |-> java],
          [embedding |-> Vector(<<1, 1>>),    content |-> java],
          [embedding |-> Vector(<<1, 0>>),    content |-> NoContent] }

\* the resume with id, of kind k
ResumeOf(id, k) == [id |-> id, embedding |-> k.embedding, content |-> k.content]

\* the lists of n resumes, whose ids are their places in the list
RECURSIVE ResumeListsOfLen(_)
ResumeListsOfLen(n) ==
    IF n = 0 THEN {<<>>}
    ELSE {Append(l, ResumeOf(n, k)) : l \in ResumeListsOfLen(n - 1), k \in ResumeKinds}

\* a list longer than either count: resumes with embeddings [1,0] and [1,1] in turn
LongList ==
    [i \in 1..(ChatCount + 1) |->
        [id |-> i,
         embedding |-> IF i % 2 = 1 THEN Vector(<<1, 0>>) ELSE Vector(<<1, 1>>),
         content |-> Content(<<106, 97, 118, 97>>)]]

ResumeLists == UNION {ResumeListsOfLen(n) : n \in 0..MaxResumes} \cup {LongList}

\* the query: a resume of the list, or a document that is not in it (id 0)
Queries(resumes) ==
    {resumes[i] : i \in 1..Min2(Len(resumes), MaxResumes)}
    \cup {ResumeOf(0, k) : k \in ResumeKinds \ {[embedding |-> Missing, content |-> NoContent],
                                               [embedding |-> Vector(<<1>>),
                                                content |-> Content(<<106, 97, 118, 97>>)],
                                               [embedding |-> Vector(<<1, 1>>),
                                                content |-> Content(<<106, 97, 118, 97>>)]}}

\* the counts FilesPage is called with
Counts == {1, 2, DefaultCount}

\* the corpus of two resumes with embeddings [1,0] and [0,1], each with a text, and
\* a query document with embedding [1,0] and a text
ScenarioLists ==
    {<<[id |-> 1, embedding |-> Vector(<<1, 0>>), content |-> Content(t1)],
       [id |-> 2, embedding |-> Vector(<<0, 1>>), content |-> Content(t2)]>> :
        t1 \in Texts \ {<<>>}, t2 \in Texts \ {<<>>}}

ScenarioQueries ==
    {[id |-> 0, embedding |-> Vector(<<1, 0>>), content |-> Content(t)] :
        t \in Texts \ {<<>>}}

RankInit ==
    /\ ScoreIdle
    /\ EmbedIdle
    /\ BatchIdle
    /\ PageIdle
    /\ \/ \E resumes \in ResumeLists : \E query \in Queries(resumes) :
             rankArgs = [resumes |-> resumes, query |-> query]
       \/ rankArgs \in [resumes : ScenarioLists, query : ScenarioQueries]
    /\ ranking = NotRanked

\* FilesPage ranks the resumes against the query resume
RankFiles(count) ==
    /\ ranking.site = "none"
    /\ ranking' = FilesFindSimilarResumes(rankArgs.resumes, rankArgs.query, count)
    /\ UNCHANGED <<rankArgs, scoreVars, embedVars, batch, pageVars>>

\* ChatbotPage ranks the resumes against the query as a job description, whose
\* embedding generateEmbedding returned
RankChat(queryFails) ==
    /\ ranking.site = "none"
    /\ ranking' = ChatFindSimilarResumes(
                      rankArgs.resumes, rankArgs.query.embedding,
                      IF HasContent(rankArgs.query.content) THEN rankArgs.query.content.t
                      ELSE <<>>,
                      queryFails)
    /\ UNCHANGED <<rankArgs, scoreVars, embedVars, batch, pageVars>>

RankNext ==
    \/ \E count \in Counts : RankFiles(count)
    \/ \E queryFails \in BOOLEAN : RankChat(queryFails)

SpecRank == RankInit /\ [][RankNext]_vars

(***************************************************************************)
(* One upload or regeneration: the items are drawn, then the action        *)
(* processes them, with its own generateEmbedding calls on the shared      *)
(* cache.                                                                  *)
(***************************************************************************)
\* the content of an item: none, or one of the texts "Aa" and "Bb"
BatchContents == {NoContent, Content(<<65, 97>>), Content(<<66, 98>>)}

\* what the endpoint answers to the requests of a batch
BatchResponses ==
    {[status |-> 429, body |-> "none"], [status |-> 500, body |-> "none"],
     [status |-> 200, body |-> "vector"], [status |-> 200, body |-> "emptyVector"]}

\* the lists of n items that start with this row
RECURSIVE ItemLists(_, _)
ItemLists(n, row) ==
    IF n = 0 THEN {<<>>}
    ELSE {Append(l, NewItem(c, row)) : l \in ItemLists(n - 1, row), c \in BatchContents}

BatchOf(kind, items) == BatchBegins([NoBatch EXCEPT !.kind = kind, !.items = items])

\* the lists of n resumes of the page, each with or without an embedding
RECURSIVE ResumeRows(_)
ResumeRows(n) ==
    IF n = 0 THEN {<<>>}
    ELSE {Append(l, NewItem(c, row)) :
             l \in ResumeRows(n - 1), c \in BatchContents,
             row \in {"noEmbedding", "embedding"}}

\* A bulk regeneration that takes every resume of the page.
EveryResume(r) == TRUE

\* r => !r.embedding || r.embedding.length === 0
WithoutEmbedding(r) == r.row = "noEmbedding"

\* regenerateAllEmbeddings() on the resumes of the page: it goes through those
\* without embedding, if there are any
RegenerateAllOf(resumes) ==
    [BatchOf("regenerateAll", SelectSeq(resumes, WithoutEmbedding))
        EXCEPT !.others = SelectSeq(resumes, LAMBDA r : ~WithoutEmbedding(r))]

\* uploadFilesBatch(files), regenerateAllEmbeddings() over the resumes without an
\* embedding, and regenerateEmbedding(resumeId) on one of them
Batches ==
    {BatchOf("upload", l) : l \in UNION {ItemLists(n, "absent") : n \in 1..MaxItems}}
    \cup {b \in {RegenerateAllOf(l) : l \in UNION {ResumeRows(n) : n \in 1..MaxItems}} :
             Len(b.items) > 0}
    \cup {BatchOf("regenerateOne", l) : l \in ItemLists(1, "noEmbedding")}

BatchInit ==
    /\ ScoreIdle
    /\ RankIdle
    /\ EmbedIdle
    /\ PageIdle
    /\ batch \in Batches

\* the action turns to item i: it checks the content and calls generateEmbedding
ItemStart(i) ==
    /\ ~batch.finished
    /\ MayStart(batch, i)
    /\ batch' = IF ~HasContent(batch.items[i].content)
                THEN Fail(UploadBegins(batch, i), i, batch.kind = "upload")
                ELSE AfterEmbed(UploadBegins(batch, i), i,
                                FilesEnter(IdleCall, batch.items[i].content.t, 3, cache))
    /\ UNCHANGED <<embedVars, scoreVars, rankVars, pageVars>>

\* the request of item i's call is answered
ItemRespond(i, resp) ==
    /\ batch.items[i].pc = "embed" /\ batch.items[i].call.pc = "fetch"
    /\ batch' = AfterEmbed(batch, i, FilesAfterResponse(batch.items[i].call, resp))
    /\ IF StoresEmbedding(resp)
       THEN /\ cache' = CacheStore(cache, batch.items[i].call.key,
                                   BodyVector(batch.items[i].call.text, resp.body))
            /\ insertLog' = LogInsert(insertLog, cache, batch.items[i].call.key)
       ELSE UNCHANGED <<cache, insertLog>>
    /\ UNCHANGED <<calls, scoreVars, rankVars, pageVars>>

\* the backoff timer of item i's call fires
ItemBackoffElapsed(i) ==
    /\ batch.items[i].pc = "embed" /\ batch.items[i].call.pc = "backoff"
    /\ batch' = AfterEmbed(batch, i,
                           FilesEnter(batch.items[i].call, batch.items[i].call.text,
                                      batch.items[i].call.retries - 1, cache))
    /\ UNCHANGED <<embedVars, scoreVars, rankVars, pageVars>>

\* the storage bucket and the table answer for item i
ItemStore(i, outcome) ==
    /\ batch.items[i].pc = "store"
    /\ outcome \in StoreOutcomes(batch.kind)
    /\ batch' = AfterStore(batch, i, outcome)
    /\ UNCHANGED <<embedVars, scoreVars, rankVars, pageVars>>

\* the delay after item i has passed
ItemDelayElapsed(i) ==
    /\ batch.items[i].pc = "delay"
    /\ batch' = [batch EXCEPT !.items[i].pc = "succeeded"]
    /\ UNCHANGED <<embedVars, scoreVars, rankVars, pageVars>>

\* the loop is over: the action shows its summary
BatchFinish ==
    /\ ~batch.finished
    /\ \A i \in 1..Len(batch.items) : IsFinal(batch.items[i])
    /\ batch' = BatchEnds([batch EXCEPT !.finished = TRUE])
    /\ UNCHANGED <<embedVars, scoreVars, rankVars, pageVars>>

BatchNext ==
    \/ \E i \in 1..Len(batch.items) : ItemStart(i)
    \/ \E i \in 1..Len(batch.items), resp \in BatchResponses : ItemRespond(i, resp)
    \/ \E i \in 1..Len(batch.items) : ItemBackoffElapsed(i)
    \/ \E i \in 1..Len(batch.items), outcome \in {"stored", "refused", "cancelled"} :
          ItemStore(i, outcome)
    \/ \E i \in 1..Len(batch.items) : ItemDelayElapsed(i)
    \/ BatchFinish

SpecBatch == BatchInit /\ [][BatchNext]_vars

(***************************************************************************)
(* One text through the normalizer: the text is drawn, then                *)
(* preprocessTextForEmbedding runs on it, then generateEmbedding builds    *)
(* the text of its request.                                                *)
(***************************************************************************)
\* '#' repeated n times
Filler(n) == [i \in 1..n |-> 35]

\* the long lines of the texts: a line over the cap without any keyword, and a line
\* over the cap that starts with the skill keyword "ai"
LongLines ==
    { Filler(CharLimit + 1),
      <<97, 105>> \o Filler(CharLimit - 1) }

\* the short lines: "x", a phone number, an email address, a line with an experience
\* and an achievement word, and a blank line
ShortLines ==
    { <<120>>,
      <<53, 53, 53, 49, 50, 51, 52, 53, 54, 55>>,          \* 5551234567
      <<97, 64, 98, 46, 99, 111>>,                         \* a@b.co
      <<87, 111, 114, 107, 32, 65, 119, 97, 114, 100>>,    \* Work Award
      <<32>> }

NormLines == LongLines \cup ShortLines

\* the texts of MaxLines lines at most: short lines, then any line
NormTexts ==
    {<<>>} \cup
    {JoinLines(Append(lines, last)) :
        lines \in UNION {[1..n -> ShortLines] : n \in 0..(MaxLines - 1)},
        last \in NormLines}

NormInit ==
    /\ ScoreIdle
    /\ EmbedIdle
    /\ RankIdle
    /\ BatchIdle
    /\ ChatIdle
    /\ FilesIdle
    /\ norm \in {[NoNorm EXCEPT !.pc = "args", !.text = t] : t \in NormTexts}

\* preprocessTextForEmbedding(text) returns
Preprocess ==
    /\ norm.pc = "args"
    /\ norm' = [norm EXCEPT !.pc = "processed",
                            !.processed = preprocessTextForEmbedding(norm.text)]
    /\ UNCHANGED <<scoreVars, embedVars, rankVars, batch, chat, files>>

\* generateEmbedding, its text not blank and not in the cache, builds finalText and
\* sends it
Send ==
    /\ norm.pc = "processed"
    /\ Trim(norm.text) # <<>>
    /\ norm' = [norm EXCEPT !.pc = "sent", !.final = FinalText(norm.processed)]
    /\ UNCHANGED <<scoreVars, embedVars, rankVars, batch, chat, files>>

NormNext == Preprocess \/ Send

SpecNorm == NormInit /\ [][NormNext]_vars

(***************************************************************************)
(* The chat: the page mounts and loads the history, then the user submits, *)
(* clears and reloads.                                                     *)
(***************************************************************************)
ChatInit ==
    /\ ScoreIdle
    /\ EmbedIdle
    /\ RankIdle
    /\ BatchIdle
    /\ NormIdle
    /\ ChatIdle
    /\ FilesIdle

\* the page mounts, or is reloaded: loadChatHistory runs
Load(selected, accepted) ==
    /\ chat.clock < MaxClock
    /\ chat' = [loadChatHistory(chat, selected, accepted)
                   EXCEPT !.failed = chat.failed \/ ~selected, !.loads = 1]
    /\ UNCHANGED <<scoreVars, embedVars, rankVars, batch, norm, files>>

\* the user submits a message
Submit(replied, accepted1, accepted2) ==
    /\ chat.loads > 0
    /\ chat.clock + 1 < MaxClock
    /\ chat' = handleSubmit(chat, replied, accepted1, accepted2)
    /\ UNCHANGED <<scoreVars, embedVars, rankVars, batch, norm, files>>

\* the user presses the clear button
Clear(confirmed, deleted, accepted) ==
    /\ chat.loads > 0
    /\ chat.clock < MaxClock
    /\ chat' = clearChatHistory(chat, confirmed, deleted, accepted)
    /\ UNCHANGED <<scoreVars, embedVars, rankVars, batch, norm, files>>

ChatNext ==
    \/ \E selected, accepted \in BOOLEAN : Load(selected, accepted)
    \/ \E replied, accepted1, accepted2 \in BOOLEAN : Submit(replied, accepted1, accepted2)
    \/ \E confirmed, deleted, accepted \in BOOLEAN : Clear(confirmed, deleted, accepted)

SpecChat == ChatInit /\ [][ChatNext]_vars

(***************************************************************************)
(* The files of one user: uploadFile calls, which may overlap since the drop *)
(* zone stays active while one runs, files deleted from the bucket          *)
(* directly, and cleanupOrphanedRecords on page load and on refresh.        *)
(***************************************************************************)
\* the sizes of the files dropped
FileSizes == {60 * MB, maxFileSize, maxFileSize + 1}

\* n rows of files of 100MB, each with its object in the bucket
FullRows(n) == [i \in 1..n |-> Resume(i, i, maxFileSize)]

\* the table and the bucket before: empty, or four files of 100MB, and with them or
\* not a row saved as text only
FilesBefore ==
    {[NoFiles EXCEPT !.rows = FullRows(n) \o SubSeq(<<Resume(n + 1, NoPath, MB)>>, 1, t),
                     !.objects = 1..n, !.nextId = n + t + 1] :
        n \in {0, 4}, t \in {0, 1}}

FilesInit ==
    /\ ScoreIdle
    /\ EmbedIdle
    /\ RankIdle
    /\ BatchIdle
    /\ NormIdle
    /\ ChatIdle
    /\ files \in FilesBefore

\* a file of this size is dropped or selected: uploadFile checks the sizes
UploadCheck(u, size) ==
    /\ files.uploads[u].pc = "idle"
    /\ files' = [files EXCEPT !.uploads[u] = UploadChecked(files, size)]
    /\ UNCHANGED <<scoreVars, embedVars, rankVars, batch, norm, chat>>

\* the bucket and the table answer an upload that passed the checks
UploadStore(u, outcome) ==
    /\ files.uploads[u].pc = "store"
    /\ files' = UploadStored(files, u, outcome)
    /\ UNCHANGED <<scoreVars, embedVars, rankVars, batch, norm, chat>>

\* a file is deleted from the bucket directly
ObjectDeleted(path) ==
    /\ path \in files.objects
    /\ files' = [files EXCEPT !.objects = @ \ {path}]
    /\ UNCHANGED <<scoreVars, embedVars, rankVars, batch, norm, chat>>

\* the page loads, or is refreshed: cleanupOrphanedRecords runs
Cleanup ==
    /\ files' = Cleaned(files)
    /\ UNCHANGED <<scoreVars, embedVars, rankVars, batch, norm, chat>>

FilesNext ==
    \/ \E u \in 1..MaxUploads, size \in FileSizes : UploadCheck(u, size)
    \/ \E u \in 1..MaxUploads, outcome \in UploadOutcomes : UploadStore(u, outcome)
    \/ \E path \in files.objects : ObjectDeleted(path)
    \/ Cleanup

SpecFiles == FilesInit /\ [][FilesNext]_vars

(***************************************************************************)
(* Claims about the scorer, checked under SpecScore.                       *)
(***************************************************************************)
Scored == scorePc # "args"

\* the text "java"
TextJava == <<106, 97, 118, 97>>

\* the text "Work"
TextWork == <<87, 111, 114, 107>>

\* C1: swapping the two sides of the scorer, (e1, t1) with (e2, t2), does not
\* change the score it returns.
C1_ScoreSymmetric ==
    Scored => filesScore.fwd.score = filesScore.swp.score

\* C2: the score the scorer returns is at least 0 and at most 1.
C2_ScoreBounded ==
    Scored => /\ FLessEq(FZero, filesScore.fwd.score)
              /\ FLessEq(filesScore.fwd.score, FOne)

\* an embedding that is missing or empty
IsEmptyEmbedding(e) == e.isNull \/ e.v = <<>>

\* an embedding all of whose components are 0
IsZeroVector(e) == ~e.isNull /\ \A i \in 1..Len(e.v) : e.v[i] = 0

DegenerateArgs ==
    \/ IsEmptyEmbedding(scoreArgs.e1) \/ IsEmptyEmbedding(scoreArgs.e2)
    \/ Len(scoreArgs.e1.v) # Len(scoreArgs.e2.v)
    \/ IsZeroVector(scoreArgs.e1) \/ IsZeroVector(scoreArgs.e2)

\* C3: when either embedding is missing or empty, or the two differ in length, or
\* either is a zero vector, the scorer returns exactly 0 whatever the texts are.
C3_DegenerateScoresZero ==
    (Scored /\ DegenerateArgs) => filesScore.fwd.score = FZero

\* C3's case: a zero vector against a unit vector of the same length, with two texts
\* that share a keyword and a section word, has been scored 0.
C3_Witness ==
    /\ Scored
    /\ scoreArgs.e1 = Vector(<<0, 0>>) /\ scoreArgs.e2 = Vector(<<1, 0>>)
    /\ scoreArgs.t1 = TextWork /\ scoreArgs.t2 = TextWork
    /\ filesScore.fwd.score = FZero

\* C4: for the same embeddings and texts, the job-description ranking of ChatbotPage
\* gives the pair the score the peer-resume ranking of FilesPage gives it.
C4_SameScoreAtBothSites ==
    (scorePc = "chat" /\ filesScore.fwd.early = "no") =>
        /\ ~chatScore.dropped
        /\ chatScore.score = filesScore.fwd.score

(***************************************************************************)
(* Claims about the embed client, checked under Spec and SpecWarm.  They   *)
(* speak of the call of the observed caller, while the other caller's      *)
(* calls overlap it.                                                       *)
(***************************************************************************)
ObservedCall == calls[Observed]

\* the observed call is a call of FilesPage that has returned
FilesDone == ObservedCall.pc = "done" /\ ObservedCall.site = "files"

\* the call got at least one answer, and every answer it got was HTTP 429
AllRateLimited(call) ==
    call.statuses # <<>> /\ \A i \in DOMAIN call.statuses : call.statuses[i] = 429

\* the status of the last answer the call got
LastStatus(call) == call.statuses[Len(call.statuses)]

\* the waits before the second, third and fourth request, in milliseconds
BackoffSchedule == <<2000, 4000, 8000>>

IsPrefix(s, t) == Len(s) <= Len(t) /\ \A i \in DOMAIN s : s[i] = t[i]

\* C5, as stated: a call whose every answer was HTTP 429 has sent 4 requests, has
\* waited 2 s, 4 s and 8 s before the second, third and fourth, and has returned
\* the empty vector.
C5_RateLimitedEveryAttempt ==
    (FilesDone /\ AllRateLimited(ObservedCall)) =>
        /\ ObservedCall.requests = 4
        /\ ObservedCall.waits = BackoffSchedule
        /\ ObservedCall.result = ReturnArray(EmptyArray)

\* C5, amended: a call whose every answer was HTTP 429, and none of whose retries
\* found its key in the cache, has sent 4 requests, has waited 2 s, 4 s and 8 s
\* before the second, third and fourth, and has returned the empty vector after
\* catching the rate-limit failure.  Any call sends at most 4 requests, waits the
\* first so many of these delays as it has sent requests but one, and sends no
\* request after an answer other than 429.
C5_RateLimitedUntilExhausted ==
    ObservedCall.site = "files" =>
        /\ ObservedCall.requests <= 4
        /\ IsPrefix(ObservedCall.waits, BackoffSchedule)
        /\ ObservedCall.pc = "fetch" => Len(ObservedCall.waits) = ObservedCall.requests - 1
        /\ \A i \in 1..(Len(ObservedCall.statuses) - 1) : ObservedCall.statuses[i] = 429
        /\ Len(ObservedCall.statuses) <= ObservedCall.requests
        /\ (FilesDone /\ AllRateLimited(ObservedCall) /\ ~ObservedCall.hit) =>
              /\ ObservedCall.requests = 4
              /\ ObservedCall.waits = BackoffSchedule
              /\ ObservedCall.result = ReturnArray(EmptyArray)
              /\ ObservedCall.error = ErrorOf("rateLimit", 429)

\* C5's case: the endpoint answered 429 to each of the four requests of a call, and
\* the call has returned the empty vector.
C5_Witness ==
    /\ FilesDone
    /\ ObservedCall.statuses = <<429, 429, 429, 429>>
    /\ ObservedCall.requests = 4
    /\ ObservedCall.waits = BackoffSchedule
    /\ ObservedCall.result = ReturnArray(EmptyArray)

\* a response that is neither ok nor HTTP 429
OtherFailure(status) == status # 0 /\ ~ResponseOk(status) /\ status # 429

GotEmbedding(call) ==
    \/ call.hit
    \/ /\ call.statuses # <<>>
       /\ LastStatus(call) = 200
       /\ call.body \in {"vector", "shortVector"}

\* C7: a call of either page never raises: it returns an array, and the array is
\* empty whenever the call failed, that is whenever it got no embedding (empty input,
\* 429 to the end, another status that is not 2xx, a network error, a body that cannot
\* be parsed or is malformed, an empty vector).
C7_FailureReturnsEmptyVector ==
    ObservedCall.pc = "done" =>
        /\ ObservedCall.result.kind = "array"
        /\ ~GotEmbedding(ObservedCall) => ObservedCall.result = ReturnArray(EmptyArray)

\* the last n elements of s, or all of s when it has fewer
LastN(s, n) == IF Len(s) <= n THEN s ELSE SubSeq(s, Len(s) - n + 1, Len(s))

\* C8: the cache evicts first-in, first-out by insertion.  Its keys are the last
\* CacheLimit keys inserted, in the order of their insertion: each eviction removed
\* the key inserted earliest, and no cache hit moved a key.
C8_CacheHoldsNewestInsertions ==
    CacheKeys(cache) = LastN(insertLog, CacheLimit)

\* C8's case: more than CacheLimit keys have been inserted, so the earliest has been
\* evicted, and a call has then hit a key that is not the newest of the cache.
C8_Witness ==
    /\ Len(insertLog) > CacheLimit
    /\ FilesDone /\ ObservedCall.hit
    /\ CacheHas(cache, ObservedCall.key)
    /\ cache[Len(cache)].key # ObservedCall.key

\* the caller's call is suspended at the network await or at the backoff delay
Suspended(c) == calls[c].site = "files" /\ calls[c].pc \in {"fetch", "backoff"}

\* C9: whatever the interleaving of the calls in progress, the cache holds at most
\* CacheLimit entries whenever a call is suspended and after every call returns.
C9_CacheNeverOverLimit ==
    Len(cache) <= CacheLimit

\* C9's case: the cache is full, a key has been evicted from it, and two calls are
\* suspended at the same time.
C9_Witness ==
    /\ Len(cache) = CacheLimit
    /\ Len(insertLog) > CacheLimit
    /\ \A c \in Callers : Suspended(c)

\* the observed caller takes a step that enters generateEmbedding of FilesPage: a
\* call, or the retry of a call after its backoff delay
ObservedEnters ==
    /\ calls'[Observed] # calls[Observed]
    /\ calls[Observed].pc \in {"idle", "backoff"}
    /\ calls'[Observed].site = "files"

\* C10: a call sends a request only if its text is not empty once trimmed and the
\* cache holds no entry for its key.  On an empty or whitespace-only text it returns
\* the empty vector at once, with no request and no change of the cache; on a cache
\* hit it returns the cached vector with no request.
C10_RequestOnlyOnValidMiss ==
    [][LET before == calls[Observed]
           after  == calls'[Observed]
           key    == TextHash(after.text)
       IN  /\ (after.site = "files" /\ after.requests > before.requests) =>
                 /\ ObservedEnters
                 /\ Len(Trim(after.text)) > 0
                 /\ ~CacheHas(cache, key)
           /\ (ObservedEnters /\ Len(Trim(after.text)) = 0) =>
                 /\ after.pc = "done"
                 /\ after.requests = 0
                 /\ after.result = ReturnArray(EmptyArray)
                 /\ cache' = cache
           /\ (ObservedEnters /\ Len(Trim(after.text)) > 0 /\ CacheHas(cache, key)) =>
                 /\ after.pc = "done"
                 /\ after.requests = before.requests
                 /\ after.result = ReturnArray(CacheGet(cache, key))
                 /\ cache' = cache]_vars

\* C10's case: a call on a text whose key the cache holds has returned the cached
\* vector without a request.
C10_Witness ==
    /\ FilesDone
    /\ ObservedCall.hit
    /\ ObservedCall.requests = 0
    /\ ObservedCall.result = ReturnArray(CacheGet(cache, ObservedCall.key))
    /\ ObservedCall.result.vec.dim = ExpectedDimensions

\* C11: when the endpoint answers with a non-empty vector, of the expected length or
\* of another, the call returns that vector, and when it returns the cache holds the
\* vector under the key of the call's text.
C11_VectorReturnedAndCached ==
    [][LET before == calls[Observed]
           after  == calls'[Observed]
           vector == EmbeddingOf(after.text, IF after.body = "vector"
                                             THEN ExpectedDimensions
                                             ELSE FormerDimensions)
       IN  (/\ before.site = "files" /\ before.pc = "fetch"
            /\ after.pc = "done"
            /\ LastStatus(after) = 200
            /\ after.body \in {"vector", "shortVector"}) =>
               /\ after.result = ReturnArray(vector)
               /\ CacheHas(cache', TextHash(after.text))
               /\ CacheGet(cache', TextHash(after.text)) = vector]_vars

\* C11's case: the endpoint answered a call with a vector of 1536 numbers, the call
\* has returned it, and a full cache holds it under the call's key.
C11_Witness ==
    /\ FilesDone
    /\ ObservedCall.body = "shortVector"
    /\ ObservedCall.result = ReturnArray(EmbeddingOf(ObservedCall.text, FormerDimensions))
    /\ Len(cache) = CacheLimit
    /\ CacheHas(cache, ObservedCall.key)
    /\ CacheGet(cache, ObservedCall.key) = ObservedCall.result.vec


\* C25: a cache hit never returns the vector of another text: when generateEmbedding
\* answers from the cache, the vector it returns was computed for a text that has
\* the same first 200 characters as the text of the call.
C25_HitReturnsOwnVector ==
    (FilesDone /\ ObservedCall.hit) =>
        Substring0(ObservedCall.result.vec.of, HashPrefixLength)
          = Substring0(ObservedCall.text, HashPrefixLength)

(***************************************************************************)
(* Claims about ranking, checked under SpecRank.  The id of a resume is    *)
(* its place in the list of resumes.                                       *)
(***************************************************************************)
Ranked == ranking.site # "none"

\* the candidate with this id is among those returned
Returned(id) == \E i \in 1..Len(ranking.returned) : ranking.returned[i].id = id

\* a comes before b in a descending, stable order of the scored candidates
RanksBefore(a, b) ==
    \/ FLess(b.similarity, a.similarity)
    \/ a.similarity = b.similarity /\ a.id < b.id

\* C12: the candidates returned are scored candidates in descending order of score,
\* those of equal score in the order of the list of resumes; there are min(count,
\* number of scored candidates) of them, and no scored candidate left out ranks
\* before one that is returned.
C12_SortedStableTopK ==
    Ranked =>
        LET r  == ranking.returned
            sc == ranking.scored
        IN  /\ Len(r) = Min2(ranking.count, Len(sc))
            /\ \A i \in 1..Len(r) : \E j \in 1..Len(sc) : sc[j] = r[i]
            /\ \A i, j \in 1..Len(r) : i < j => RanksBefore(r[i], r[j])
            /\ \A j \in 1..Len(sc) :
                  ~Returned(sc[j].id) => \A i \in 1..Len(r) : RanksBefore(r[i], sc[j])

\* C12's case: more candidates were scored than the count allows, two of those
\* returned have the same score, and two have different scores.
C12_Witness ==
    /\ Ranked
    /\ Len(ranking.returned) < Len(ranking.scored)
    /\ \E i, j \in 1..Len(ranking.returned) :
          i < j /\ ranking.returned[i].similarity = ranking.returned[j].similarity
    /\ ranking.returned[1].similarity
         # ranking.returned[Len(ranking.returned)].similarity

\* the ids of the candidates the call scored
ScoredIds == {ranking.scored[i].id : i \in 1..Len(ranking.scored)}

\* the resumes of the list other than the query
OtherResumes ==
    {r \in {rankArgs.resumes[i] : i \in 1..Len(rankArgs.resumes)} :
        r.id # rankArgs.query.id}

\* FilesPage has ranked against a query that has an embedding and a text
FilesRanked ==
    /\ ranking.site = "files"
    /\ HasEmbedding(rankArgs.query.embedding)
    /\ HasContent(rankArgs.query.content)

\* the resume has neither an embedding nor a text
LacksBoth(r) == ~HasEmbedding(r.embedding) /\ ~HasContent(r.content)

NoUsableEmbedding(e) == e.isNull \/ e.v = <<>>

\* C14: at both sites, a ranking call on an empty list of resumes, or with a query
\* whose embedding is absent or empty, returns the empty list.
C14_NothingToRankReturnsEmpty ==
    (Ranked /\ (rankArgs.resumes = <<>> \/ NoUsableEmbedding(rankArgs.query.embedding)))
        => ranking.returned = <<>>

\* the query has a non-empty embedding and a text, and the call caught no error
QueryUsable ==
    /\ Ranked
    /\ ranking.caught = "none"
    /\ ~NoUsableEmbedding(rankArgs.query.embedding)
    /\ HasContent(rankArgs.query.content)

\* the candidate's vector is empty, or of another length than the query's
BadVector(r) ==
    /\ HasEmbedding(r.embedding)
    /\ \/ r.embedding.v = <<>>
       \/ Len(r.embedding.v) # Len(rankArgs.query.embedding.v)

\* C15: at both sites, a candidate with a text whose vector is empty or of another
\* length than the query's is scored 0 and stays among the scored candidates, and
\* every candidate with a text and a vector of the query's length is scored too.
C15_BadCandidateScoresZero ==
    QueryUsable =>
        \A r \in {o \in OtherResumes : HasContent(o.content) /\ HasEmbedding(o.embedding)} :
            /\ r.id \in ScoredIds
            /\ BadVector(r) =>
                  \E i \in 1..Len(ranking.scored) :
                      ranking.scored[i] = [id |-> r.id, similarity |-> FZero]


\* the call ranked the corpus of candidate 1 with embedding [1,0] and candidate 2
\* with embedding [0,1] against a query with embedding [1,0], all three with a text,
\* and could return two candidates
ScenarioRanked ==
    /\ Ranked
    /\ ranking.caught = "none"
    /\ ranking.count >= 2
    /\ rankArgs.resumes \in ScenarioLists
    /\ rankArgs.query \in ScenarioQueries

Items == 1..Len(batch.items)

\* generateEmbedding has returned the empty array for the item
EmbedFailed(item) ==
    /\ HasContent(item.content)
    /\ ~item.embedded
    /\ item.pc \in {"store", "delay", "succeeded", "failed"}

\* the items that the batch has counted as succeeded, and as failed
Succeeded == {i \in Items : batch.items[i].pc \in {"delay", "succeeded"}}

Failed == {i \in Items : batch.items[i].pc = "failed"}

\* the three-item batch of this kind has ended, the second item's request was
\* answered 500, and the first and the third got their embedding and were stored
SecondOfThreeFailed(kind) ==
    /\ batch.kind = kind
    /\ batch.finished
    /\ Len(batch.items) = 3
    /\ EmbedFailed(batch.items[2]) /\ batch.items[2].error = "requestFailed"
    /\ \A i \in {1, 3} : batch.items[i].embedded /\ batch.items[i].row = "embedding"

\* C16: in regenerateAllEmbeddings an item whose embedding failed is counted as
\* failed and keeps its embedding unset, the items after it are still processed,
\* and at the end succeeded + failed is the number of items (2 and 1 for three
\* items of which the second was answered 500).
C16_RegenerationCountsFailures ==
    batch.kind = "regenerateAll" =>
        /\ \A i \in Items :
              EmbedFailed(batch.items[i]) =>
                  /\ i \in Failed
                  /\ batch.items[i].row = "noEmbedding"
                  /\ i < Len(batch.items) =>
                        \/ MayStart(batch, i + 1)
                        \/ batch.items[i + 1].pc # "pending"
        /\ batch.successCount = Cardinality(Succeeded)
        /\ batch.failureCount = Cardinality(Failed)
        /\ batch.finished =>
              /\ \A i \in Items : IsFinal(batch.items[i])
              /\ batch.successCount + batch.failureCount = Len(batch.items)
        /\ SecondOfThreeFailed("regenerateAll") =>
              batch.successCount = 2 /\ batch.failureCount = 1

C16_Witness ==
    /\ SecondOfThreeFailed("regenerateAll")
    /\ batch.successCount = 2
    /\ batch.failureCount = 1
    /\ batch.items[2].row = "noEmbedding"


\* the files for which uploadFile raised
Raised == {i \in Items : batch.items[i].raised}

\* every failure of the batch so far is an embedding that was not produced
OnlyEmbeddingsFailed ==
    \A i \in Items :
        /\ HasContent(batch.items[i].content)
        /\ batch.items[i].embedded => batch.items[i].pc # "failed"

\* C17 as stated: at the end of uploadFilesBatch the failed count is the number of
\* files whose embedding call failed and succeeded + failed is the number of files
\* (2 and 1 for three files of which the second's request was answered 500).
C17_UploadCountsEmbeddingFailures ==
    (batch.kind = "upload" /\ batch.finished) =>
        /\ OnlyEmbeddingsFailed =>
              batch.failureCount =
                  Cardinality({i \in Items : EmbedFailed(batch.items[i])})
        /\ batch.successCount + batch.failureCount = Len(batch.items)
        /\ SecondOfThreeFailed("upload") =>
              batch.successCount = 2 /\ batch.failureCount = 1

\* C17: in uploadFilesBatch the failed count is the number of files for which
\* uploadFile raised, and succeeded + failed is the number of files at the end; a
\* file whose embedding call failed is stored without embedding and counted as
\* succeeded (3 and 0 for three accepted files of which the second's request was
\* answered 500).
C17_UploadCountsRaisedFiles ==
    batch.kind = "upload" =>
        /\ Failed = Raised
        /\ batch.failureCount = Cardinality(Raised)
        /\ batch.successCount = Cardinality(Succeeded)
        /\ batch.finished =>
              batch.successCount + batch.failureCount = Len(batch.items)
        /\ (SecondOfThreeFailed("upload") /\ Raised = {}) =>
              /\ batch.successCount = 3
              /\ batch.failureCount = 0
              /\ batch.items[2].row \in {"noEmbedding", "absent"}

C17_Witness ==
    /\ SecondOfThreeFailed("upload")
    /\ batch.successCount = 3
    /\ batch.failureCount = 0
    /\ batch.items[2].row = "noEmbedding"


\* generateEmbedding returns the empty array for item i in this step
EmbedFails(i) ==
    /\ batch.items[i].pc \in {"pending", "embed"}
    /\ EmbedFailed(batch'.items[i])

\* C18: a failed embedding never aborts the action.  uploadFile goes on to store
\* the file, and the file it stores has its embedding unset and uploadFile does not
\* raise; regenerateEmbedding never raises and leaves the resume without embedding.
C18_EmbeddingFailureNeverAborts ==
    /\ [][\A i \in Items :
            (batch.kind = "upload" /\ EmbedFails(i)) =>
                batch'.items[i].pc = "store" /\ ~batch'.items[i].raised]_vars
    /\ [](batch.kind = "upload" =>
            \A i \in Items :
                (EmbedFailed(batch.items[i]) /\ batch.items[i].row # "absent") =>
                    /\ batch.items[i].row = "noEmbedding"
                    /\ batch.items[i].pc \in {"delay", "succeeded"}
                    /\ ~batch.items[i].raised)
    /\ [](batch.kind = "regenerateOne" =>
            \A i \in Items :
                /\ ~batch.items[i].raised
                /\ EmbedFailed(batch.items[i]) =>
                      /\ batch.items[i].pc = "failed"
                      /\ batch.items[i].row = "noEmbedding")

C18_Witness ==
    /\ batch.kind = "upload"
    /\ batch.finished
    /\ Len(batch.items) = 1
    /\ EmbedFailed(batch.items[1]) /\ batch.items[1].error = "rateLimit"
    /\ batch.items[1].row = "noEmbedding"
    /\ batch.items[1].pc = "succeeded"
    /\ ~batch.items[1].raised


\* the batch has gone on from item i to the item after it
MovedOn(i) == i < Len(batch.items) /\ batch.items[i + 1].pc # "pending"

\* C19: in a batch of uploads or regenerations the action waits its delay, of one
\* second at least, between an item and the next whether the item succeeded or
\* failed, and does not wait after the last item.
C19_DelayBetweenItems ==
    batch.kind \in {"upload", "regenerateAll"} =>
        \A i \in Items :
            /\ MovedOn(i) =>
                  /\ batch.items[i].waited = DelayOf(batch)
                  /\ batch.items[i].waited >= 1000
            /\ i = Len(batch.items) => batch.items[i].waited = 0


\* the items whose generateEmbedding call has not returned yet
Embedding == {i \in Items : batch.items[i].call.pc \in {"fetch", "backoff"}}

\* C20: within one batch at most one embedding request is in flight: the call of
\* item i + 1 starts only when item i is over, the retries of its call after 429
\* answers included.
C20_OneRequestAtATime ==
    /\ Cardinality(Embedding) <= 1
    /\ \A i \in Items : MovedOn(i) => IsFinal(batch.items[i])

C20_Witness ==
    /\ Len(batch.items) >= 2
    /\ IsFinal(batch.items[1])
    /\ batch.items[1].error = "rateLimit"
    /\ batch.items[2].call.pc = "fetch"
    /\ batch.items[2].call.requests = 1


(***************************************************************************)
(* Claims about the normalizer, checked under SpecNorm.                    *)
(***************************************************************************)
Normalized == norm.pc \in {"processed", "sent"}

\* C21: preprocessTextForEmbedding returns at most 7500 characters for every text,
\* and the text generateEmbedding sends has at most 7500 characters.
C21_NormalizedWithinLimit ==
    /\ Normalized => Len(norm.processed) <= CharLimit
    /\ norm.pc = "sent" => Len(norm.final) <= CharLimit

C21_Witness ==
    /\ norm.pc = "sent"
    /\ Len(norm.text) > CharLimit
    /\ Len(norm.processed) = CharLimit
    /\ norm.processed # Substring0(norm.text, CharLimit)
    /\ norm.final = norm.processed


\* the words of the four buckets
BucketWords ==
    EducationWords \o SkillWords \o skillKeywords \o ExperienceWords
    \o experienceKeywords \o AchievementWords

\* no line of text matches a keyword of any bucket
NoBucketLine(text) == LinesWith(TrimmedLines(text), BucketWords) = <<>>

\* C22: for a text of which no line matches a keyword of a bucket,
\* preprocessTextForEmbedding returns the first 7500 characters of the text, also
\* when the text holds an email address or a phone number, and it returns the empty
\* string only for the empty text.
C22_NoKeywordFallsBackToRaw ==
    (Normalized /\ NoBucketLine(norm.text)) =>
        /\ norm.processed = Substring0(norm.text, CharLimit)
        /\ norm.processed = <<>> => norm.text = <<>>


(***************************************************************************)
(* Claims about the chat history, checked under SpecChat.                  *)
(***************************************************************************)
\* what loadChatHistory would show of the rows of chat_messages
History == [i \in 1..Len(chat.rows) |-> MessageOf(chat.rows[i])]

\* C24: every message the chat shows was sent to chat_messages when it was created:
\* as long as no insert was refused, reloading the history gives the messages
\* shown, in the same order.
C24_ShownIsStored == ~chat.refused => chat.messages = History


\* C26: every embedding written into a row by an upload or a regeneration is null or a
\* non-empty vector, and the cache holds no empty vector.
C26_NoEmptyEmbeddingStored ==
    /\ \A i \in Items :
          LET stored == batch.items[i].stored
          IN  stored.written /\ ~stored.isNull => stored.vec.dim > 0
    /\ \A k \in 1..Len(cache) : cache[k].value.dim > 0

\* an upload whose embed call returned an empty array has stored null, another item
\* has stored its vector, and the cache holds that vector
C26_Witness ==
    /\ batch.kind = "upload"
    /\ \E i, j \in Items :
          /\ batch.items[i].stored = Written(TRUE, EmptyArray)
          /\ batch.items[i].error = "none"
          /\ batch.items[j].stored.written
          /\ batch.items[j].stored.vec.dim > 0
    /\ Len(cache) > 0


\* the action is a regeneration, single or bulk
Regenerating == batch.kind \in {"regenerateOne", "regenerateAll"}

\* C27: a regeneration never destroys an existing embedding.  A bulk regeneration
\* writes only to the resumes that had no embedding when it started: a resume that
\* has one is never written again and the resumes left out stay as they were; and a
\* regeneration whose embed call fails writes nothing to the resume.
C27_RegenerationKeepsEmbeddings ==
    [][Regenerating =>
          /\ batch'.others = batch.others
          /\ \A i \in Items :
                /\ batch.items[i].row = "embedding" =>
                      /\ batch'.items[i].row = "embedding"
                      /\ batch'.items[i].stored = batch.items[i].stored
                /\ EmbedFails(i) =>
                      /\ batch'.items[i].row = batch.items[i].row
                      /\ batch'.items[i].stored = NotWritten
                      /\ batch'.items[i].pc = "failed"]_vars

\* a bulk regeneration over a page that has a resume with an embedding has ended:
\* it left that resume out, one of its embed calls failed and wrote nothing, and
\* another wrote its vector
C27_Witness ==
    /\ batch.kind = "regenerateAll"
    /\ batch.finished
    /\ Len(batch.others) > 0
    /\ \E i, j \in Items :
          /\ EmbedFailed(batch.items[i])
          /\ batch.items[i].stored = NotWritten
          /\ batch.items[j].stored.written
          /\ batch.items[j].row = "embedding"


\* C28: from the start of a batch upload of n files until the batch ends the page's
\* uploading flag is true, uploadProgress.total is n, and uploadProgress.failed is
\* the number of files that have failed so far.
C28_BatchProgressHolds ==
    (batch.kind = "upload" /\ ~batch.finished) =>
        /\ batch.uploading
        /\ batch.uploadProgress.total = Len(batch.items)
        /\ batch.uploadProgress.failed = Cardinality(Failed)


\* C29: cleanupOrphanedRecords deletes only rows whose file was stored and has
\* disappeared from the bucket; a row saved as text only, with the empty file_path,
\* is never deleted by it.
C29_CleanupSparesTextOnly ==
    \A c \in files.cleaned : c.row.file_path # NoPath /\ ~c.present

\* C30: after any interleaving of uploads of one user the sizes of the rows sum to
\* 500MB at most and every row is of 100MB at most.
C30_StorageWithinLimits ==
    /\ SumSizes(files.rows) <= maxTotalStorage
    /\ \A i \in 1..Len(files.rows) : files.rows[i].file_size <= maxFileSize

=============================================================================
